---- MODULE Spec2Model ----
(***************************************************************************)
(* A model of the movfuscator pipeline (atomicul/movfuscator):             *)
(*   - memorymanager.MemoryManager   (the aligned data arena)              *)
(*   - textparser.Expression         (linear symbolic expressions)        *)
(*   - textparser.parser             (basic blocks and CFG linking)        *)
(*   - textparser.models             (operands and their text)             *)
(*   - dataparser.parser             (the data section)                    *)
(*   - blockpreprocessor             (symbols, stack expansion, context)   *)
(*   - linearizer.linearizer         (re-linearisation of a CFG)           *)
(* Each subsystem has its own specification (SpecMem, SpecExpr,            *)
(* SpecExprFn, SpecParse, SpecCfg, SpecData, SpecPre, SpecStr, SpecTrav,   *)
(* SpecStack, SpecRun); the variables of the other subsystems stay at      *)
(* their idle values.                                                      *)
(***************************************************************************)
EXTENDS Integers, Sequences, FiniteSets, TLC

VARIABLES
    \* memorymanager.MemoryManager
    alignment,        \* MemoryManager._alignment
    current_offset,   \* MemoryManager._current_offset
    allocations,      \* MemoryManager._allocations (AllocationDetails, in order)
    memResult,        \* outcome of the last allocate_* call
    \* textparser.Expression, a sequence of operations on one expression
    ex,               \* the expression: [c |-> _constant, t |-> _terms]
    exLast,           \* the last operation applied to ex, with its inputs
    \* Expression.parse / Expression.__str__
    pin,              \* the input handed to str / parse
    ptoks,            \* the token list parse works on
    pres,             \* the outcome of parse
    ppc,              \* position of the str/parse scenario
    \* textparser.parser and linearizer.linearizer
    src,              \* the text section: a stream of labels and instructions
    blocks,           \* the BasicBlock list (successors are indices into it)
    functions,        \* the Function list (entry blocks as indices)
    emitted,          \* per function, the linearised stream
    cfgPc,            \* position in the pipeline
    \* dataparser.parser
    dsrc,             \* the source lines handed to parse_data
    dcalls,           \* the calls parse_data made on the allocator, in order
    dmap,             \* the label -> allocations map parse_data returns
    dPc,              \* position of the parse_data scenario
    \* blockpreprocessor
    pcall,            \* the last call of a preprocessing pass: arguments and result
    \* the traversals of the CFG, one loop turn at a time
    trav,             \* the traversal under way: its loop variables and output
    \* the processor that executes rewritten code
    mach              \* registers, memory, the code it runs and its position in it

memVars   == <<alignment, current_offset, allocations, memResult>>
exprVars  == <<ex, exLast>>
parseVars == <<pin, ptoks, pres, ppc>>
cfgVars   == <<src, blocks, functions, emitted, cfgPc>>
dataVars  == <<dsrc, dcalls, dmap, dPc>>
preVars   == <<pcall, trav, mach>>
vars      == <<memVars, exprVars, parseVars, cfgVars, dataVars, preVars>>

\* A subsystem that a specification does not exercise stays idle.
MemIdle   == alignment = 0 /\ current_offset = 0 /\ allocations = <<>>
             /\ memResult = [status |-> "idle"]
EmptyTerms == [s \in {} |-> 0]
ExprIdle  == ex = [c |-> 0, t |-> EmptyTerms] /\ exLast = [op |-> "idle"]
ParseIdle == pin = [kind |-> "idle"] /\ ptoks = <<>> /\ pres = [status |-> "idle"]
             /\ ppc = "idle"
CfgIdle   == src = <<>> /\ blocks = <<>> /\ functions = <<>> /\ emitted = <<>>
             /\ cfgPc = "idle"
DataIdle  == dsrc = <<>> /\ dcalls = <<>> /\ dmap = <<>> /\ dPc = "idle"
MachIdle  == mach = [pc |-> "idle"]
PreIdle   == pcall = [fn |-> "idle"] /\ trav = [pc |-> "idle"] /\ MachIdle

(***************************************************************************)
(* memorymanager/manager.py                                                *)
(***************************************************************************)

\* Bounds of the memory model.
MaxAlign     == 4   \* alignments 1..MaxAlign
MaxAllocs    == 4   \* calls are made while fewer allocations are recorded
MaxStrLen    == 2   \* lengths of the strings handed to allocate_data
MaxListLen   == 2   \* lengths of the lists handed to allocate_data
MaxEmptySize == 3   \* sizes handed to allocate_empty (from -1)

Names == {"counter"}

\* f"__pad_{self._current_offset}"
PadName(cursor) == "__pad_" \o ToString(cursor)

\* The values allocate_data accepts: int, float, str, list of int/float.
DataValues ==
    {[kind |-> "int"], [kind |-> "float"]}
    \cup {[kind |-> "str", len |-> n] : n \in 0..MaxStrLen}
    \cup {[kind |-> "list", len |-> n, hasFloat |-> f] :
             n \in 0..MaxListLen, f \in BOOLEAN}

\* allocate_data's match on the value: the directive.
DataDirective(value) ==
    CASE value.kind = "int"   -> ".int"
      [] value.kind = "float" -> ".float"
      [] value.kind = "str"   -> ".asciz"
      [] value.kind = "list"  -> IF value.hasFloat THEN ".float" ELSE ".int"

\* allocate_data's match on the value: the size in bytes.
DataSize(value) ==
    CASE value.kind = "int"   -> 4
      [] value.kind = "float" -> 4
      [] value.kind = "str"   -> value.len + 1
      [] value.kind = "list"  -> value.len * 4

\* The padding _register_allocation inserts at a cursor that is not aligned.
MutPadding(cursor, a) == cursor % a
Padding(cursor, a) == a - (cursor % a)

\* The new Allocation's offset is read after the cursor was aligned.
MutRegisterOffset(cursor, a) == cursor
RegisterOffset(cursor, a) ==
    IF cursor % a # 0 THEN cursor + Padding(cursor, a) ELSE cursor

\* _register_allocation: the allocations appended by one call.
RegisterAppended(cursor, a, name, size, directive, init) ==
    LET pad == IF cursor % a # 0
               THEN << [name |-> PadName(cursor), offset |-> cursor,
                        size |-> Padding(cursor, a),
                        initial_value_str |-> "None", directive |-> ".zero"] >>
               ELSE << >>
        offset == RegisterOffset(cursor, a)
    IN  pad \o << [name |-> name, offset |-> offset, size |-> size,
                   initial_value_str |-> init, directive |-> directive] >>

\* _register_allocation as a step of the manager.
RegisterAllocation(name, size, directive, init) ==
    LET added  == RegisterAppended(current_offset, alignment, name, size,
                                   directive, init)
        offset == RegisterOffset(current_offset, alignment)
    IN  /\ allocations' = allocations \o added
        /\ current_offset' = offset + size
        /\ memResult' = [status |-> "ok", offset |-> offset, size |-> size]
        /\ UNCHANGED alignment

MutMemRaise(msg) ==
    /\ memResult' = [status |-> "error", err |-> msg]
    /\ allocations' = allocations \o
          (IF current_offset % alignment # 0
           THEN << [name |-> PadName(current_offset), offset |-> current_offset,
                    size |-> Padding(current_offset, alignment),
                    initial_value_str |-> "None", directive |-> ".zero"] >>
           ELSE << >>)
    /\ current_offset' = RegisterOffset(current_offset, alignment)
    /\ UNCHANGED alignment

\* A call that raises leaves the manager as it was.
MemRaise(msg) ==
    /\ memResult' = [status |-> "error", err |-> msg]
    /\ UNCHANGED <<alignment, current_offset, allocations>>

allocate_data(value, name) ==
    /\ alignment > 0
    /\ Len(allocations) < MaxAllocs
    /\ IF value.kind = "list" /\ value.len = 0
       THEN MemRaise("Cannot allocate empty list")
       ELSE RegisterAllocation(name, DataSize(value), DataDirective(value), "value")
    /\ UNCHANGED <<exprVars, parseVars, cfgVars, dataVars, preVars>>

allocate_empty(size, name) ==
    /\ alignment > 0
    /\ Len(allocations) < MaxAllocs
    /\ IF size <= 0
       THEN MemRaise("Size must be positive.")
       ELSE RegisterAllocation(name, size, ".zero", "None")
    /\ UNCHANGED <<exprVars, parseVars, cfgVars, dataVars, preVars>>

\* MemoryManager.__init__ with an alignment 1..MaxAlign.
InitMem ==
    /\ alignment \in 1..MaxAlign
    /\ current_offset = 0
    /\ allocations = <<>>
    /\ memResult = [status |-> "none"]
    /\ ExprIdle /\ ParseIdle /\ CfgIdle /\ DataIdle /\ PreIdle

NextMem ==
    \/ \E v \in DataValues, n \in Names : allocate_data(v, n)
    \/ \E s \in (-1)..MaxEmptySize, n \in Names : allocate_empty(s, n)

SpecMem == InitMem /\ [][NextMem]_vars

\* An allocation is a padding filler when _register_allocation made it.
IsPad(al) == al.name = PadName(al.offset) /\ al.directive = ".zero"

\* C2: the offset of every data allocation (every recorded allocation that is
\* not a __pad_ filler, and the offset the last call returned) is a multiple
\* of the alignment.
C2_DataOffsetsAligned ==
    /\ \A i \in 1..Len(allocations) :
          ~IsPad(allocations[i]) => allocations[i].offset % alignment = 0
    /\ memResult.status = "ok" => memResult.offset % alignment = 0

\* C2 witness: a data allocation that had to be moved past a padding filler.
C2_Witness ==
    /\ memResult.status = "ok"
    /\ Len(allocations) >= 3
    /\ IsPad(allocations[Len(allocations) - 1])
    /\ allocations[Len(allocations)].offset = memResult.offset
    /\ memResult.offset > 0
    /\ alignment > 1

\* The recorded allocations tile [0, cursor) in insertion order.
Tiling(allocs, cursor) ==
    /\ \A i \in 1..Len(allocs) :
          /\ allocs[i].size > 0
          /\ allocs[i].offset = IF i = 1 THEN 0
                                ELSE allocs[i-1].offset + allocs[i-1].size
    /\ cursor = IF Len(allocs) = 0 THEN 0
                ELSE allocs[Len(allocs)].offset + allocs[Len(allocs)].size

\* What one successful allocation call does to the manager.
MemStepOK ==
    (allocations' # allocations) =>
       LET pre == current_offset
           n   == Len(allocations)
           m   == Len(allocations')
           new == allocations'[m]
       IN  /\ m > n
           /\ SubSeq(allocations', 1, n) = allocations
           /\ (pre % alignment # 0) <=> (m = n + 2)
           /\ (pre % alignment = 0) <=> (m = n + 1)
           /\ m = n + 2 =>
                 allocations'[n + 1] =
                    [name |-> PadName(pre), offset |-> pre,
                     size |-> alignment - (pre % alignment),
                     initial_value_str |-> "None", directive |-> ".zero"]
           /\ new.offset % alignment = 0
           /\ new.offset >= pre /\ new.offset < pre + alignment
           /\ current_offset' = new.offset + new.size
           /\ memResult' = [status |-> "ok", offset |-> new.offset,
                            size |-> new.size]

\* C3: a call appends a zero-filled padding __pad_<cursor> of size
\* alignment - cursor mod alignment exactly when the cursor is not aligned,
\* then the new allocation at the aligned cursor, and advances the cursor by
\* its size; the recorded allocations always tile [0, cursor).
C3_PaddingAndTiling ==
    [][MemStepOK]_vars /\ [](Tiling(allocations, current_offset))

\* C3 witness: int, 2-byte string, int under alignment 4 gives offsets
\* 0, 4, (padding at 6), 8 and cursor 12.
C3_Witness ==
    /\ alignment = 4
    /\ Len(allocations) = 4
    /\ allocations[1].offset = 0 /\ allocations[1].directive = ".int"
    /\ allocations[2].offset = 4 /\ allocations[2].directive = ".asciz"
    /\ allocations[2].size = 2
    /\ allocations[3] = [name |-> "__pad_6", offset |-> 6, size |-> 2,
                         initial_value_str |-> "None", directive |-> ".zero"]
    /\ allocations[4].offset = 8 /\ allocations[4].directive = ".int"
    /\ current_offset = 12

\* What a call may do to the manager: it succeeds only with a positive size
\* (never for an empty list or a size <= 0), and a call that fails leaves
\* the cursor and the allocations as they were.
FailedCallKeepsState ==
    /\ memResult'.status = "ok" => memResult'.size > 0
    /\ memResult'.status = "error" =>
          /\ allocations' = allocations
          /\ current_offset' = current_offset

\* C14: allocate_data with an empty list and allocate_empty with size <= 0
\* fail with an error, and after the failed call the cursor and the list of
\* allocations are exactly what they were before it: a failing call inserts
\* no padding.
C14_FailedCallKeepsState == [][FailedCallKeepsState]_vars

\* C14 witness: a call failed at a cursor that is not aligned, where a
\* successful call would have inserted a padding.
C14_Witness ==
    /\ memResult.status = "error"
    /\ current_offset % alignment # 0

(***************************************************************************)
(* textparser/expression.py: the Expression algebra                        *)
(*                                                                         *)
(* An Expression is [c |-> _constant, t |-> _terms]; _terms is a function  *)
(* whose domain is the set of keys of the dictionary.  Python integers are *)
(* unbounded, so no width is modelled; the actions keep the values inside  *)
(* MaxCoef.                                                                *)
(***************************************************************************)

\* Bounds of the expression model.
MaxCoef == 3   \* the actions keep |constant| and |coefficient| <= MaxCoef
MaxArg  == 1   \* integers and coefficients of the operands: -MaxArg..MaxArg

Symbols == {"A", "B"}
ArgInts == (-MaxArg)..MaxArg

\* Reading self._terms[sym] of a defaultdict(int).
Coef(t, sym) == IF sym \in DOMAIN t THEN t[sym] ELSE 0

\* Expression(int), Expression(str), Expression(Expression).
ExprInt(n)  == [c |-> n, t |-> EmptyTerms]
ExprSym(x)  == [c |-> 0, t |-> [y \in {x} |-> 1]]
ExprCopy(e) == [c |-> e.c, t |-> e.t]

\* _cleanup: drop the terms whose coefficient is zero.
MutCleanup(e) == e
Cleanup(e) ==
    [c |-> e.c, t |-> [x \in {y \in DOMAIN e.t : e.t[y] # 0} |-> e.t[x]]]

\* is_scalar and symbols.
IsScalar(e) == DOMAIN e.t = {}
SymbolsOf(e) == DOMAIN e.t

\* The operands of + and -: an int, a str (a symbol) or an Expression.
OpInt(n)  == [k |-> "int", n |-> n]
OpStr(x)  == [k |-> "str", x |-> x]
OpExpr(e) == [k |-> "expr", e |-> e]

\* The loops "for sym, coeff in x._terms.items(): result._terms[sym] += sign*coeff".
MergeTerms(t, u, sign) ==
    [x \in DOMAIN t \cup DOMAIN u |-> Coef(t, x) + sign * Coef(u, x)]

\* __add__ and __sub__ up to their "return result._cleanup()"; sign is +1/-1.
AddSubRaw(self, other, sign) ==
    LET result == ExprCopy(self)
    IN  CASE other.k = "int"  ->
                [c |-> result.c + sign * other.n, t |-> result.t]
          [] other.k = "str"  ->
                [c |-> result.c,
                 t |-> MergeTerms(result.t, [y \in {other.x} |-> 1], sign)]
          [] other.k = "expr" ->
                [c |-> result.c + sign * other.e.c,
                 t |-> MergeTerms(result.t, other.e.t, sign)]

Add(self, other) == Cleanup(AddSubRaw(self, other, 1))
Sub(self, other) == Cleanup(AddSubRaw(self, other, -1))

\* __mul__ (and __rmul__) up to its "return result._cleanup()".
MulRaw(self, n) ==
    LET result == ExprCopy(self)
    IN  [c |-> result.c * n, t |-> [x \in DOMAIN result.t |-> result.t[x] * n]]

Mul(self, n) == Cleanup(MulRaw(self, n))

\* self._terms.pop(term)
MutPopTerm(t, term) == t
PopTerm(t, term) == [x \in DOMAIN t \ {term} |-> t[x]]

\* substitute_term for a term that is present, up to "self._cleanup()":
\* pop the term, then add coefficient * value.  value is an int or another
\* Expression (the docstring's domain).
SubstituteRaw(self, term, value) ==
    LET coefficient == self.t[term]
        popped == PopTerm(self.t, term)
    IN  IF value.k = "int"
        THEN [c |-> self.c + value.n * coefficient, t |-> popped]
        ELSE [c |-> self.c + value.e.c * coefficient,
              t |-> [x \in DOMAIN popped \cup DOMAIN value.e.t |->
                       Coef(popped, x) + Coef(value.e.t, x) * coefficient]]

\* substitute_term: returns at once when the term is not present.
SubstituteTerm(self, term, value) ==
    IF term \notin DOMAIN self.t THEN self
    ELSE Cleanup(SubstituteRaw(self, term, value))

\* A caller's loop "for s in e.symbols: e.substitute_term(s, f[s])".
RECURSIVE SubstituteAll(_, _, _)
SubstituteAll(e, todo, f) ==
    IF todo = {} THEN e
    ELSE LET x == CHOOSE y \in todo : TRUE
         IN  SubstituteAll(SubstituteTerm(e, x, OpInt(f[x])), todo \ {x}, f)

\* Canonical expressions with constant and coefficients in -m..m.
CanonExprs(m) ==
    UNION { { [c |-> k, t |-> f] : k \in (-m)..m, f \in [D -> ((-m)..m) \ {0}] }
            : D \in SUBSET Symbols }

ArgExprs == CanonExprs(MaxArg)

Operands ==
    {OpInt(n) : n \in ArgInts} \cup {OpStr(x) : x \in Symbols}
    \cup {OpExpr(e) : e \in ArgExprs}

Values == {OpInt(n) : n \in ArgInts} \cup {OpExpr(e) : e \in ArgExprs}

Abs(n) == IF n < 0 THEN -n ELSE n
InRange(e) ==
    /\ Abs(e.c) <= MaxCoef
    /\ \A x \in DOMAIN e.t : Abs(e.t[x]) <= MaxCoef

HasZero(e) == \E x \in DOMAIN e.t : e.t[x] = 0

\* Python's == on two references when the class defines no __eq__ (Expression
\* defines none): object identity; an Expression never equals an int.
Ref(id, e) == [tag |-> "obj", id |-> id, val |-> e]
IntVal(n)  == [tag |-> "int", n |-> n]
PyEq(a, b) ==
    IF a.tag = "obj" /\ b.tag = "obj" THEN a.id = b.id
    ELSE IF a.tag = "int" /\ b.tag = "int" THEN a.n = b.n
    ELSE FALSE

(***************************************************************************)
(* SpecExpr: one expression under a sequence of operations.  exLast keeps  *)
(* the name of the last operation and whether its result, before           *)
(* _cleanup ran, held a zero coefficient.                                  *)
(***************************************************************************)
ExStep(e, opname, raw) ==
    /\ InRange(e)
    /\ ex' = e
    /\ exLast' = [op |-> opname, cancelled |-> HasZero(raw)]
    /\ UNCHANGED <<memVars, parseVars, cfgVars, dataVars, preVars>>

ExAdd(other) == ExStep(Add(ex, other), "add", AddSubRaw(ex, other, 1))
ExSub(other) == ExStep(Sub(ex, other), "sub", AddSubRaw(ex, other, -1))
ExMul(n)     == ExStep(Mul(ex, n), "mul", MulRaw(ex, n))
ExSubstitute(term, value) ==
    ExStep(SubstituteTerm(ex, term, value), "subst",
           IF term \in DOMAIN ex.t THEN SubstituteRaw(ex, term, value) ELSE ex)

\* Construction: Expression(int), Expression(str), Expression(Expression).
InitExpr ==
    /\ ex \in {ExprInt(n) : n \in ArgInts} \cup {ExprSym(x) : x \in Symbols}
              \cup {ExprCopy(e) : e \in ArgExprs}
    /\ exLast = [op |-> "new", cancelled |-> FALSE]
    /\ MemIdle /\ ParseIdle /\ CfgIdle /\ DataIdle /\ PreIdle

NextExpr ==
    \/ \E o \in Operands : ExAdd(o)
    \/ \E o \in Operands : ExSub(o)
    \/ \E n \in ArgInts \cup {2} : ExMul(n)
    \/ \E x \in Symbols, v \in Values : ExSubstitute(x, v)

SpecExpr == InitExpr /\ [][NextExpr]_vars

\* C4: after any sequence of operations (construction, +, -, * by an integer,
\* substitute_term with an integer or an Expression) no symbol of the term
\* map has coefficient zero.
C4_NoZeroCoefficient == \A x \in DOMAIN ex.t : ex.t[x] # 0

\* C4 witness: a substitution whose raw result held a zero coefficient
\* that _cleanup had to remove.
C4_Witness ==
    /\ exLast.op = "subst"
    /\ exLast.cancelled
    /\ ~HasZero(ex)

(***************************************************************************)
(* SpecExprFn: single calls on drawn inputs.  Init draws the expression    *)
(* and the call; the action applies it and keeps the inputs in exLast.     *)
(***************************************************************************)
ExprCalls ==
    {[op |-> "call", f |-> "subst", term |-> x, value |-> v] :
        x \in Symbols, v \in Values}
    \cup {[op |-> "call", f |-> "substall", ints |-> g] :
        g \in [Symbols -> ArgInts]}
    \cup {[op |-> "call", f |-> "compare", n |-> n] : n \in ArgInts}

InitExprFn ==
    /\ ex \in CanonExprs(MaxCoef)
    /\ exLast \in ExprCalls
    /\ MemIdle /\ ParseIdle /\ CfgIdle /\ DataIdle /\ PreIdle

FnSubstitute ==
    /\ exLast.op = "call" /\ exLast.f = "subst"
    /\ ex' = SubstituteTerm(ex, exLast.term, exLast.value)
    /\ exLast' = [op |-> "subst", pre |-> ex, term |-> exLast.term,
                  value |-> exLast.value]
    /\ UNCHANGED <<memVars, parseVars, cfgVars, dataVars, preVars>>

FnSubstituteAll ==
    /\ exLast.op = "call" /\ exLast.f = "substall"
    /\ ex' = SubstituteAll(ex, SymbolsOf(ex), exLast.ints)
    /\ exLast' = [op |-> "substall", pre |-> ex]
    /\ UNCHANGED <<memVars, parseVars, cfgVars, dataVars, preVars>>

\* The comparisons "e + n - n == e", "e * 0", "e - e == 0" as Python
\* evaluates them: every operator returns a new object.
FnCompare ==
    /\ exLast.op = "call" /\ exLast.f = "compare"
    /\ LET e  == Ref(0, ex)
           r1 == Ref(1, Add(e.val, OpInt(exLast.n)))
           r2 == Ref(2, Sub(r1.val, OpInt(exLast.n)))
           z  == Ref(3, Mul(e.val, 0))
           d  == Ref(4, Sub(e.val, OpExpr(e.val)))
       IN  exLast' = [op |-> "compare", n |-> exLast.n,
                      addsub |-> r2.val, addsubEq |-> PyEq(r2, e),
                      mulzero |-> z.val,
                      subself |-> d.val, subselfEq |-> PyEq(d, IntVal(0))]
    /\ ex' = ex
    /\ UNCHANGED <<memVars, parseVars, cfgVars, dataVars, preVars>>

NextExprFn == FnSubstitute \/ FnSubstituteAll \/ FnCompare

SpecExprFn == InitExprFn /\ [][NextExprFn]_vars

\* C6: for every e and n, e + n - n == e, e * 0 is the scalar 0, and
\* e - e == 0, with == the equality of Expression.
C6_AlgebraicIdentities ==
    exLast.op = "compare" =>
       /\ exLast.addsubEq
       /\ IsScalar(exLast.mulzero) /\ exLast.mulzero.c = 0
       /\ exLast.subselfEq

\* What the code does give for C6: the values agree (same constant, same
\* term map), e * 0 is the scalar 0, e - e has constant 0 and no terms.
C6_ValuesAgree ==
    exLast.op = "compare" =>
       /\ exLast.addsub = ex
       /\ IsScalar(exLast.mulzero) /\ exLast.mulzero.c = 0
       /\ exLast.subself = ExprInt(0)

\* C7: substitute_term(s, v) on an expression with the term k*s removes it
\* and adds k*v (k times v's constant and k times each of v's terms, also
\* when v mentions s or cancels other terms); it changes nothing when s is
\* not present; after all symbols were substituted by integers the
\* expression is a scalar.
ValueConst(v)   == IF v.k = "int" THEN v.n ELSE v.e.c
ValueCoef(v, x) == IF v.k = "int" THEN 0 ELSE Coef(v.e.t, x)
C7_Substitute ==
    /\ exLast.op = "subst" =>
          LET pre == exLast.pre
              s   == exLast.term
              v   == exLast.value
              k   == Coef(pre.t, s)
          IN  IF s \in DOMAIN pre.t
              THEN /\ ex.c = pre.c + k * ValueConst(v)
                   /\ \A x \in Symbols :
                         Coef(ex.t, x) =
                            (IF x = s THEN 0 ELSE Coef(pre.t, x))
                            + k * ValueCoef(v, x)
                   /\ ~HasZero(ex)
              ELSE ex = pre
    /\ exLast.op = "substall" => IsScalar(ex)

\* C7 witness: the value mentions the substituted symbol and cancels another
\* term of the expression.
C7_Witness ==
    /\ exLast.op = "subst"
    /\ exLast.term \in DOMAIN exLast.pre.t
    /\ exLast.value.k = "expr"
    /\ exLast.term \in DOMAIN exLast.value.e.t
    /\ exLast.term \in DOMAIN ex.t
    /\ \E x \in DOMAIN exLast.pre.t \ {exLast.term} : x \notin DOMAIN ex.t

\* C7 witness, second part: several symbols were all substituted by integers.
C7_WitnessAll ==
    /\ exLast.op = "substall"
    /\ Cardinality(DOMAIN exLast.pre.t) = 2
    /\ IsScalar(ex)

(***************************************************************************)
(* textparser/expression.py: __str__ and parse                             *)
(*                                                                         *)
(* A text is a sequence of pieces, written as __str__ writes them: a       *)
(* number with its sign ("-2"), "-A" for a term with coefficient -1, the   *)
(* operators and the symbols.  The tokenizer splits at every operator, so  *)
(* the sign of "-2" and of "-A" becomes a token of its own.                *)
(***************************************************************************)

\* Bounds of the str/parse model.
MaxNum     == 2   \* numbers of the texts: 0..MaxNum (coefficients -MaxNum..MaxNum)
MaxFactors == 2   \* factors of a product
MaxTextLen == 3   \* pieces of a free text

\* sorted(self._terms.items()) sorts by symbol name: the symbols of the
\* model, in the order of their code points.
SymbolOrder == <<"0", "A", "B", "__GLOBAL_MEM", "ext", "x", "y">>

NoToken == "<None>"

\* str(int)
IntStr(n) == ToString(n)
\* f"-{sym}"
NegSym(x) == "-" \o x

\* The part __str__ appends for the term coeff * sym.
TermPart(x, coeff) ==
    IF coeff = 1 THEN <<x>>
    ELSE IF coeff = -1 THEN <<NegSym(x)>>
    ELSE <<IntStr(coeff), "*", x>>

\* Whether a piece starts with the character "-".
NumCap == MaxNum * MaxNum + 2 * MaxNum
StartsWithMinus(piece) ==
    \/ piece = "-"
    \/ \E n \in 1..NumCap : piece = IntStr(-n)
    \/ \E i \in 1..Len(SymbolOrder) : piece = NegSym(SymbolOrder[i])

\* "+".join(parts).replace("+-", "-")
RECURSIVE JoinParts(_)
JoinParts(parts) ==
    IF Len(parts) = 0 THEN <<>>
    ELSE IF Len(parts) = 1 THEN parts[1]
    ELSE LET front == JoinParts(SubSeq(parts, 1, Len(parts) - 1))
             last  == parts[Len(parts)]
         IN  IF StartsWithMinus(last[1]) THEN front \o last
             ELSE front \o <<"+">> \o last

\* The list "parts" of __str__: the terms sorted by symbol, then the constant.
RECURSIVE TermParts(_, _)
TermParts(e, i) ==
    IF i > Len(SymbolOrder) THEN <<>>
    ELSE (IF SymbolOrder[i] \in DOMAIN e.t
          THEN << TermPart(SymbolOrder[i], e.t[SymbolOrder[i]]) >>
          ELSE <<>>) \o TermParts(e, i + 1)

\* __str__
ExprStr(e) ==
    IF IsScalar(e) THEN <<IntStr(e.c)>>
    ELSE JoinParts(TermParts(e, 1)
                   \o (IF e.c # 0 THEN << <<IntStr(e.c)>> >> ELSE <<>>))

\* re.split(r"([+*\-()])|\s+", text): a piece with a leading sign is split.
TokensOfPiece(piece) ==
    IF \E n \in 1..NumCap : piece = IntStr(-n)
    THEN <<"-", IntStr(CHOOSE n \in 1..NumCap : piece = IntStr(-n))>>
    ELSE IF \E x \in Symbols : piece = NegSym(x)
    THEN <<"-", CHOOSE x \in Symbols : piece = NegSym(x)>>
    ELSE <<piece>>

RECURSIVE Tokenize(_)
Tokenize(text) ==
    IF text = <<>> THEN <<>>
    ELSE TokensOfPiece(Head(text)) \o Tokenize(Tail(text))

\* token.isdigit() and int(token)
IsDigit(tok) == \E n \in 0..NumCap : tok = IntStr(n)
IntOf(tok)   == CHOOSE n \in 0..NumCap : tok = IntStr(n)
\* re.match(r"^[a-zA-Z_.][a-zA-Z0-9_.]*$", token)
IsSymbol(tok) == tok \in Symbols

\* peek()
Peek(tokens, cursor) ==
    IF cursor <= Len(tokens) THEN tokens[cursor] ELSE NoToken

\* What a parse function hands back: a value (an int, or an Expression when
\* isx) and the cursor after it, or the error raised.
POk(isx, e, cursor) ==
    [ok |-> TRUE, isx |-> isx, e |-> e, pos |-> cursor, err |-> ""]
PErr(msg, cursor) ==
    [ok |-> FALSE, isx |-> FALSE, e |-> ExprInt(0), pos |-> cursor, err |-> msg]
\* The operand a parsed value is for + and -.
AsOperand(r) == IF r.isx THEN OpExpr(r.e) ELSE OpInt(r.e.c)

\* parse_term's match (node, rhs): two Expression objects raise Non-linear.
Times(node, rhs) ==
    IF node.isx /\ rhs.isx THEN PErr("Non-linear", rhs.pos)
    ELSE IF node.isx THEN POk(TRUE, Mul(node.e, rhs.e.c), rhs.pos)
    ELSE IF rhs.isx  THEN POk(TRUE, Mul(rhs.e, node.e.c), rhs.pos)
    ELSE POk(FALSE, ExprInt(node.e.c * rhs.e.c), rhs.pos)

RECURSIVE ParseExpr(_, _), ParseExprLoop(_, _), ParseTerm(_, _),
          ParseTermLoop(_, _), ParseFactor(_, _)

\* parse_factor: ( Expr ) | - Factor | + Factor | Integer | Symbol
ParseFactor(tokens, cursor) ==
    LET token == Peek(tokens, cursor)
    IN  IF token = NoToken THEN PErr("Unexpected end", cursor)
        ELSE IF token = "("
        THEN LET r == ParseExpr(tokens, cursor + 1)
             IN  IF ~r.ok THEN r
                 ELSE IF Peek(tokens, r.pos) # ")" THEN PErr("Expected", r.pos)
                 ELSE POk(TRUE, r.e, r.pos + 1)
        ELSE IF token = "-"
        THEN LET r == ParseFactor(tokens, cursor + 1)
             IN  IF ~r.ok THEN r
                 ELSE POk(TRUE, Sub(ExprInt(0), AsOperand(r)), r.pos)
        ELSE IF token = "+" THEN ParseFactor(tokens, cursor + 1)
        ELSE IF IsDigit(token) THEN POk(FALSE, ExprInt(IntOf(token)), cursor + 1)
        ELSE IF IsSymbol(token) THEN POk(TRUE, ExprSym(token), cursor + 1)
        ELSE PErr("Unexpected token", cursor)

\* parse_term's loop: while peek() == "*"
ParseTermLoop(tokens, node) ==
    IF Peek(tokens, node.pos) = "*"
    THEN LET rhs == ParseFactor(tokens, node.pos + 1)
         IN  IF ~rhs.ok THEN rhs
             ELSE LET prod == Times(node, rhs)
                  IN  IF ~prod.ok THEN prod ELSE ParseTermLoop(tokens, prod)
    ELSE POk(TRUE, IF node.isx THEN ExprCopy(node.e) ELSE ExprInt(node.e.c),
             node.pos)

\* parse_term: Factor { * Factor }
ParseTerm(tokens, cursor) ==
    LET node == ParseFactor(tokens, cursor)
    IN  IF ~node.ok THEN node ELSE ParseTermLoop(tokens, node)

\* parse_expr's loop: while peek() in ("+", "-")
ParseExprLoop(tokens, node) ==
    IF Peek(tokens, node.pos) \in {"+", "-"}
    THEN LET op  == Peek(tokens, node.pos)
             rhs == ParseTerm(tokens, node.pos + 1)
         IN  IF ~rhs.ok THEN rhs
             ELSE ParseExprLoop(tokens,
                     POk(TRUE, IF op = "+" THEN Add(node.e, OpExpr(rhs.e))
                               ELSE Sub(node.e, OpExpr(rhs.e)), rhs.pos))
    ELSE node

\* parse_expr: Term { (+|-) Term }
ParseExpr(tokens, cursor) ==
    LET node == ParseTerm(tokens, cursor)
    IN  IF ~node.ok THEN node ELSE ParseExprLoop(tokens, node)

\* Expression.parse on the token list.
ParseTokens(tokens) ==
    IF tokens = <<>> THEN [status |-> "ok", val |-> ExprInt(0)]
    ELSE LET result == ParseExpr(tokens, 1)
         IN  IF ~result.ok THEN [status |-> "error", err |-> result.err]
             ELSE IF result.pos <= Len(tokens)
             THEN [status |-> "error", err |-> "Unexpected extra tokens"]
             ELSE [status |-> "ok", val |-> result.e]

\* The factors a product is written with, each with whether it is symbolic.
Factors ==
    {[text |-> <<IntStr(n)>>, sym |-> FALSE] : n \in (-MaxNum)..MaxNum}
    \cup {[text |-> <<"(", IntStr(n), ")">>, sym |-> FALSE] : n \in 1..MaxNum}
    \cup {[text |-> <<"(", "1", "+", "2", ")">>, sym |-> FALSE]}
    \cup {[text |-> <<x>>, sym |-> TRUE] : x \in Symbols}
    \cup {[text |-> <<NegSym(x)>>, sym |-> TRUE] : x \in Symbols}
    \cup {[text |-> <<"(", x, ")">>, sym |-> TRUE] : x \in Symbols}

Products == UNION {[1..n -> Factors] : n \in 2..MaxFactors}

\* factor * factor * ...
RECURSIVE ProductText(_)
ProductText(fs) ==
    IF Len(fs) = 1 THEN fs[1].text
    ELSE ProductText(SubSeq(fs, 1, Len(fs) - 1)) \o <<"*">> \o fs[Len(fs)].text

SymbolicFactors(fs) == Cardinality({i \in 1..Len(fs) : fs[i].sym})

Pieces == {"+", "-", "*", "(", ")", "1", "A", "%"}
FreeTexts == UNION {[1..n -> Pieces] : n \in 0..MaxTextLen}

\* The inputs: an Expression to print and parse back, a product, a free text.
InitParse ==
    /\ \/ /\ pin \in {[kind |-> "expr", e |-> e] : e \in CanonExprs(MaxNum)}
          /\ ptoks = <<>>
          /\ ppc = "expr"
       \/ /\ pin \in {[kind |-> "product", factors |-> fs] : fs \in Products}
          /\ ptoks = ProductText(pin.factors)
          /\ ppc = "text"
       \/ /\ pin \in {[kind |-> "text"]}
          /\ ptoks \in FreeTexts
          /\ ppc = "text"
    /\ pres = [status |-> "none"]
    /\ MemIdle /\ ExprIdle /\ CfgIdle /\ DataIdle /\ PreIdle

\* str(e)
Str ==
    /\ ppc = "expr"
    /\ ptoks' = ExprStr(pin.e)
    /\ ppc' = "text"
    /\ UNCHANGED <<pin, pres, memVars, exprVars, cfgVars, dataVars, preVars>>

\* Expression.parse(text)
Parse ==
    /\ ppc = "text"
    /\ ptoks' = Tokenize(ptoks)
    /\ pres' = ParseTokens(Tokenize(ptoks))
    /\ ppc' = "done"
    /\ UNCHANGED <<pin, memVars, exprVars, cfgVars, dataVars, preVars>>

NextParse == Str \/ Parse

SpecParse == InitParse /\ [][NextParse]_vars

\* C5: for every canonical Expression e, parse(str(e)) succeeds and yields
\* the same constant and the same symbol-to-coefficient map as e.
C5_RoundTrip ==
    (ppc = "done" /\ pin.kind = "expr") =>
       pres.status = "ok" /\ pres.val = pin.e

\* What the code does give for C5: the round trip holds unless the first
\* printed term has a coefficient below -1, and then parse raises Non-linear.
FirstCoef(e) ==
    LET i == CHOOSE j \in 1..Len(SymbolOrder) :
                /\ SymbolOrder[j] \in DOMAIN e.t
                /\ \A h \in 1..(j-1) : SymbolOrder[h] \notin DOMAIN e.t
    IN  e.t[SymbolOrder[i]]
C5_RoundTripUnlessLeadingNegative ==
    (ppc = "done" /\ pin.kind = "expr") =>
       IF ~IsScalar(pin.e) /\ FirstCoef(pin.e) < -1
       THEN pres = [status |-> "error", err |-> "Non-linear"]
       ELSE pres.status = "ok" /\ pres.val = pin.e

\* C8: parse rejects a product with the Non-linear error exactly when it has
\* more than one symbolic factor; every product with at most one symbolic
\* factor is accepted, also with negated or parenthesised integer factors.
C8_NonLinearIffTwoSymbolic ==
    (ppc = "done" /\ pin.kind = "product") =>
       /\ (pres = [status |-> "error", err |-> "Non-linear"])
             <=> (SymbolicFactors(pin.factors) > 1)
       /\ SymbolicFactors(pin.factors) <= 1 => pres.status = "ok"

(***************************************************************************)
(* textparser.parser: build_blocks, link_blocks, extract_functions.        *)
(*                                                                         *)
(* The text section is the stream parse_elements hands to build_blocks: a  *)
(* label, or an instruction with its line number.  Only the first operand  *)
(* of an instruction matters to the parser, and only by what               *)
(* resolve_target_block distinguishes: no operand at all, an operand that  *)
(* is not a MemoryOperand, or a MemoryOperand whose displacement prints as *)
(* a label name.  Blocks are referred to by their index in the block list. *)
(***************************************************************************)
MaxElems == 4   \* labels and instructions of a generated text section

Label(n) == [label |-> n]
Instruction(m, op, line) == [mnemonic |-> m, operand |-> op, line_number |-> line]
IsLabel(item) == "label" \in DOMAIN item

NoOperand  == ""        \* instr.operands is empty
RegOperand == "%eax"    \* a RegisterOperand
LabelNames == {"L1", "L2"}
UnknownLabel == "nowhere"

\* The mnemonics of the model, by the tests the parser makes on them.
ConditionalMnemonics ==
    {"je", "jz", "jne", "jnz", "jl", "jnge", "jge", "jnl", "jg", "jnle",
     "jle", "jng", "jb", "jnae", "jc", "jae", "jnb", "jnc", "ja", "jnbe",
     "jbe", "jna"}
StartsWithJ(m) == m \in ConditionalMnemonics \cup {"jmp", "jp"}
StartsWithB(m) == m \in {"b", "bswap"}

is_return(m) == m \in {"ret", "iret", "syscall"}
is_unconditional(m) == m \in {"jmp", "b", "ret", "iret", "syscall"}
is_terminator(m) ==
    StartsWithJ(m) \/ StartsWithB(m) \/ m \in {"ret", "iret", "syscall"}

\* JumpCondition.from_mnemonic: the canonical condition and the swap flag,
\* or ValueError for a mnemonic it does not know.
from_mnemonic(m) ==
    CASE m \in {"je", "jz"}          -> [ok |-> TRUE, condition |-> "je", swap |-> FALSE]
      [] m \in {"jne", "jnz"}        -> [ok |-> TRUE, condition |-> "je", swap |-> TRUE]
      [] m \in {"jl", "jnge"}        -> [ok |-> TRUE, condition |-> "jl", swap |-> FALSE]
      [] m \in {"jge", "jnl"}        -> [ok |-> TRUE, condition |-> "jl", swap |-> TRUE]
      [] m \in {"jg", "jnle"}        -> [ok |-> TRUE, condition |-> "jg", swap |-> FALSE]
      [] m \in {"jle", "jng"}        -> [ok |-> TRUE, condition |-> "jg", swap |-> TRUE]
      [] m \in {"jb", "jnae", "jc"}  -> [ok |-> TRUE, condition |-> "jb", swap |-> FALSE]
      [] m \in {"jae", "jnb", "jnc"} -> [ok |-> TRUE, condition |-> "jb", swap |-> TRUE]
      [] m \in {"ja", "jnbe"}        -> [ok |-> TRUE, condition |-> "ja", swap |-> FALSE]
      [] m \in {"jbe", "jna"}        -> [ok |-> TRUE, condition |-> "ja", swap |-> TRUE]
      [] OTHER                       -> [ok |-> FALSE, condition |-> "", swap |-> FALSE]

\* BasicBlock.successor: None, DirectSuccessor or ConditionalSuccessor.
NoSuccessor == [kind |-> "none"]
DirectSuccessor(b) == [kind |-> "direct", block |-> b]
ConditionalSuccessor(t, f, c) ==
    [kind |-> "cond", true_block |-> t, false_block |-> f, condition |-> c]
BasicBlock(n) == [name |-> n, instructions |-> <<>>, successor |-> NoSuccessor]

RECURSIVE MutBuildFrom(_, _, _, _)
MutBuildFrom(elements, i, bs, open) ==
    IF i > Len(elements) THEN bs
    ELSE LET item == elements[i] IN
         IF IsLabel(item)
         THEN IF open /\ bs[Len(bs)].instructions = <<>>
              THEN MutBuildFrom(elements, i + 1,
                                [bs EXCEPT ![Len(bs)].name = item.label], TRUE)
              ELSE MutBuildFrom(elements, i + 1, Append(bs, BasicBlock(item.label)), TRUE)
         ELSE LET bs1 == IF open THEN bs
                         ELSE Append(bs, BasicBlock("loc_" \o ToString(item.line_number)))
                  bs2 == [bs1 EXCEPT ![Len(bs1)].instructions = Append(@, item)]
              IN  MutBuildFrom(elements, i + 1, bs2, ~is_terminator(item.mnemonic))

\* build_blocks: `open` says that current_block is the last block of bs.
RECURSIVE BuildFrom(_, _, _, _)
BuildFrom(elements, i, bs, open) ==
    IF i > Len(elements) THEN bs
    ELSE LET item == elements[i] IN
         IF IsLabel(item)
         THEN BuildFrom(elements, i + 1, Append(bs, BasicBlock(item.label)), TRUE)
         ELSE LET bs1 == IF open THEN bs
                         ELSE Append(bs, BasicBlock("loc_" \o ToString(item.line_number)))
                  bs2 == [bs1 EXCEPT ![Len(bs1)].instructions = Append(@, item)]
              IN  BuildFrom(elements, i + 1, bs2, ~is_terminator(item.mnemonic))
build_blocks(elements) == BuildFrom(elements, 1, <<>>, FALSE)

\* block_map = {b.name: b for b in blocks}: the last block of a name wins;
\* 0 stands for a name that is not in the map.
BlockMap(bs, n) ==
    LET hits == {i \in 1..Len(bs) : bs[i].name = n}
    IN  IF hits = {} THEN 0 ELSE CHOOSE i \in hits : \A j \in hits : j <= i

MutResolveTargetBlock(instr, bs) ==
    IF instr.operand = NoOperand THEN [status |-> "ValueError", block |-> 0]
    ELSE IF instr.operand = RegOperand THEN [status |-> "TypeError", block |-> 0]
    ELSE IF BlockMap(bs, instr.operand) = 0 THEN [status |-> "ok", block |-> 1]
    ELSE [status |-> "ok", block |-> BlockMap(bs, instr.operand)]

resolve_target_block(instr, bs) ==
    IF instr.operand = NoOperand THEN [status |-> "ValueError", block |-> 0]
    ELSE IF instr.operand = RegOperand THEN [status |-> "TypeError", block |-> 0]
    ELSE IF BlockMap(bs, instr.operand) = 0 THEN [status |-> "LookupError", block |-> 0]
    ELSE [status |-> "ok", block |-> BlockMap(bs, instr.operand)]

MutCreateConditionalSuccessor(mnemonic, target_block, next_physical) ==
    LET r == from_mnemonic(mnemonic)
    IN  [ok |-> r.ok,
         successor |-> ConditionalSuccessor(target_block, next_physical, r.condition)]

create_conditional_successor(mnemonic, target_block, next_physical) ==
    LET r == from_mnemonic(mnemonic)
    IN  [ok |-> r.ok,
         successor |->
            IF r.swap
            THEN ConditionalSuccessor(next_physical, target_block, r.condition)
            ELSE ConditionalSuccessor(target_block, next_physical, r.condition)]

Pop(s) == SubSeq(s, 1, Len(s) - 1)

\* One turn of the loop of link_blocks, for the block at index i: the block
\* as the turn leaves it, or the exception the turn raises.
LinkBlock(bs, i) ==
    LET block == bs[i]
        next_physical == IF i + 1 <= Len(bs) THEN i + 1 ELSE 0
        fall == [status |-> "ok",
                 block  |-> IF next_physical # 0
                            THEN [block EXCEPT !.successor = DirectSuccessor(next_physical)]
                            ELSE block]
        same == [status |-> "ok", block |-> block]
    IN  IF block.instructions = <<>> THEN fall
        ELSE
        LET last_instr == block.instructions[Len(block.instructions)]
            mnem == last_instr.mnemonic
            terminates == is_terminator(mnem)
            is_conditional == terminates /\ ~is_unconditional(mnem)
        IN  IF ~terminates THEN fall
            ELSE IF is_return(mnem) THEN same
            ELSE
            LET target == resolve_target_block(last_instr, bs) IN
            IF target.status # "ok" THEN [status |-> target.status, block |-> block]
            ELSE IF is_conditional /\ next_physical # 0
            THEN LET cs == create_conditional_successor(mnem, target.block, next_physical)
                 IN  IF ~cs.ok THEN [status |-> "ValueError", block |-> block]
                     ELSE [status |-> "ok",
                           block  |-> [block EXCEPT !.successor = cs.successor,
                                                    !.instructions = Pop(@)]]
            ELSE IF is_unconditional(mnem) /\ ~is_return(mnem)
            THEN [status |-> "ok",
                  block  |-> [block EXCEPT !.successor = DirectSuccessor(target.block),
                                           !.instructions = Pop(@)]]
            ELSE same

\* link_blocks: the turns in order; the first exception ends the call.  A
\* turn reads only names and positions of the other blocks, which no turn
\* changes.
link_blocks(bs) ==
    LET turn == [i \in 1..Len(bs) |-> LinkBlock(bs, i)]
        bad  == {i \in 1..Len(bs) : turn[i].status # "ok"}
    IN  IF bad = {}
        THEN [status |-> "ok", blocks |-> [i \in 1..Len(bs) |-> turn[i].block]]
        ELSE [status |-> turn[CHOOSE i \in bad : \A j \in bad : i <= j].status,
              blocks |-> <<>>]

\* The queue loop of extract_functions.  `visited` holds block identities;
\* the test `curr.name in visited` compares a name with identities and never
\* succeeds, so every dequeued block is processed.
RECURSIVE Traverse(_, _, _)
Traverse(bs, queue, visited) ==
    IF queue = <<>> THEN visited
    ELSE LET curr == Head(queue)
             v1   == visited \cup {curr}
             s    == bs[curr].successor
             more == CASE s.kind = "direct" ->
                            IF s.block \notin v1 THEN <<s.block>> ELSE <<>>
                      [] s.kind = "cond" ->
                            (IF s.true_block \notin v1 THEN <<s.true_block>> ELSE <<>>)
                            \o (IF s.false_block \notin v1 THEN <<s.false_block>> ELSE <<>>)
                      [] OTHER -> <<>>
         IN  Traverse(bs, Tail(queue) \o more, v1)

Function(n, b) == [name |-> n, entry_block |-> b]

RECURSIVE ExtractFrom(_, _, _, _)
ExtractFrom(bs, i, visited, fns) ==
    IF i > Len(bs) THEN fns
    ELSE IF i \in visited THEN ExtractFrom(bs, i + 1, visited, fns)
    ELSE ExtractFrom(bs, i + 1, Traverse(bs, <<i>>, visited),
                     Append(fns, Function(bs[i].name, i)))
extract_functions(bs) == ExtractFrom(bs, 1, {}, <<>>)

(***************************************************************************)
(* linearizer.linearizer: discover_blocks, generate_block_content,         *)
(* linearize_function.                                                     *)
(***************************************************************************)
NoneName == "<None>"   \* physical_next_name is None

\* discover_blocks: depth first, the true block before the false block; the
\* visitors set is shared by the whole traversal.
RECURSIVE Discover(_, _, _)
Discover(bs, b, visitors) ==
    IF b \in visitors THEN [order |-> <<>>, visitors |-> visitors]
    ELSE LET v1 == visitors \cup {b}
             s  == bs[b].successor
         IN  CASE s.kind = "direct" ->
                    LET r == Discover(bs, s.block, v1)
                    IN  [order |-> <<b>> \o r.order, visitors |-> r.visitors]
               [] s.kind = "cond" ->
                    LET r1 == Discover(bs, s.true_block, v1)
                        r2 == Discover(bs, s.false_block, r1.visitors)
                    IN  [order |-> <<b>> \o r1.order \o r2.order,
                         visitors |-> r2.visitors]
               [] OTHER -> [order |-> <<b>>, visitors |-> v1]
discover_blocks(bs, b) == Discover(bs, b, {}).order

MutGetFallthroughSuccessor(block) ==
    CASE block.successor.kind = "direct" -> block.successor.block
      [] block.successor.kind = "cond"   -> block.successor.true_block
      [] OTHER -> 0

\* get_fallthrough_successor: 0 stands for None.
get_fallthrough_successor(block) ==
    CASE block.successor.kind = "direct" -> block.successor.block
      [] block.successor.kind = "cond"   -> block.successor.false_block
      [] OTHER -> 0

ends_unconditionally(block) ==
    /\ block.instructions # <<>>
    /\ block.instructions[Len(block.instructions)].mnemonic
          \in {"jmp", "ret", "iret", "syscall"}

\* An instruction the linearizer builds: Instruction(mnemonic, [MemoryOperand(
\* displacement=Expression(name))]), with the default line number 0.
Jump(m, n) == Instruction(m, n, 0)

MutGenerateBlockContent(bs, b, physical_next_name) ==
    LET block == bs[b]
        cond  == IF block.successor.kind = "cond"
                 THEN <<Jump(block.successor.condition,
                             bs[block.successor.true_block].name)>>
                 ELSE <<>>
        logical_fallthrough == get_fallthrough_successor(block)
        jmp   == IF logical_fallthrough # 0 /\ ~ends_unconditionally(block)
                 THEN <<Jump("jmp", bs[logical_fallthrough].name)>>
                 ELSE <<>>
    IN  <<Label(block.name)>> \o block.instructions \o cond \o jmp

generate_block_content(bs, b, physical_next_name) ==
    LET block == bs[b]
        cond  == IF block.successor.kind = "cond"
                 THEN <<Jump(block.successor.condition,
                             bs[block.successor.true_block].name)>>
                 ELSE <<>>
        logical_fallthrough == get_fallthrough_successor(block)
        jmp   == IF /\ logical_fallthrough # 0
                    /\ bs[logical_fallthrough].name # physical_next_name
                    /\ ~ends_unconditionally(block)
                 THEN <<Jump("jmp", bs[logical_fallthrough].name)>>
                 ELSE <<>>
    IN  <<Label(block.name)>> \o block.instructions \o cond \o jmp

\* A linearizer that takes every block's fall-through for the block that
\* follows it in the stream.
RECURSIVE MutConcat(_, _, _)
MutConcat(bs, order, i) ==
    IF i > Len(order) THEN <<>>
    ELSE generate_block_content(bs, order[i],
             IF get_fallthrough_successor(bs[order[i]]) # 0
             THEN bs[get_fallthrough_successor(bs[order[i]])].name ELSE NoneName)
         \o MutConcat(bs, order, i + 1)

RECURSIVE Concat(_, _, _)
Concat(bs, order, i) ==
    IF i > Len(order) THEN <<>>
    ELSE generate_block_content(bs, order[i],
             IF i + 1 <= Len(order) THEN bs[order[i + 1]].name ELSE NoneName)
         \o Concat(bs, order, i + 1)

\* linearize_function.  The functions of parse_cfg carry no prologue: it is
\* the empty list for them.
PrologueOf(cfg_func) ==
    IF "prologue" \in DOMAIN cfg_func THEN cfg_func.prologue ELSE <<>>
linearize_function(bs, cfg_func) ==
    [name |-> cfg_func.name,
     instructions |-> <<Label(cfg_func.name)>> \o PrologueOf(cfg_func)
                      \o Concat(bs, discover_blocks(bs, cfg_func.entry_block), 1)]

(***************************************************************************)
(* The pipeline on a text section: parse_cfg, then linearize_function on   *)
(* each function it found.                                                 *)
(***************************************************************************)
\* Text sections over a small alphabet, every label defined at most once.
JumpTexts == {<<m, t>> : m \in {"jmp", "je", "jge"}, t \in LabelNames}
Alphabet ==
    {Label(n) : n \in LabelNames}
    \cup {Instruction("cmp", RegOperand, 0), Instruction("ret", NoOperand, 0)}
    \cup {Instruction(j[1], j[2], 0) : j \in JumpTexts}
LabelsOnce(s) ==
    \A i, j \in 1..Len(s) : (i < j /\ IsLabel(s[i])) => s[i] # s[j]
GeneralTexts ==
    {s \in UNION {[1..n -> Alphabet] : n \in 0..MaxElems} : LabelsOnce(s)}

\* One conditional jump of every mnemonic, with a next physical block:
\* towards a later label, and back to the block's own label.
TableTexts ==
    UNION {{<<Instruction("cmp", RegOperand, 0), Instruction(m, "L2", 0),
              Label("L1"), Label("L2")>>,
            <<Label("L1"), Instruction("cmp", RegOperand, 0),
              Instruction(m, "L1", 0), Instruction("ret", NoOperand, 0)>>}
           : m \in ConditionalMnemonics \cup {"jp"}}

\* One terminator, with each kind of operand, as the first or the last block.
EdgeTexts ==
    UNION {{<<Label("L1"), Instruction(m, t, 0)>>,
            <<Instruction(m, t, 0), Label("L1")>>}
           : m \in {"jmp", "je", "jp", "b", "bswap", "iret", "syscall"},
             t \in {"L1", UnknownLabel, RegOperand, NoOperand}}

\* parse_elements gives every instruction the number of its line.
Numbered(s) ==
    [i \in 1..Len(s) |->
        IF IsLabel(s[i]) THEN s[i] ELSE [s[i] EXCEPT !.line_number = i]]
Texts == {Numbered(s) : s \in GeneralTexts \cup TableTexts \cup EdgeTexts}

InitCfg ==
    /\ src \in Texts
    /\ blocks = <<>> /\ functions = <<>> /\ emitted = <<>>
    /\ cfgPc = "source"
    /\ MemIdle /\ ExprIdle /\ ParseIdle /\ DataIdle /\ PreIdle

Raised == {"ValueError", "TypeError", "LookupError"}

parse_cfg ==
    /\ cfgPc = "source"
    /\ LET bs == build_blocks(src) IN
       IF bs = <<>>
       THEN blocks' = <<>> /\ functions' = <<>> /\ cfgPc' = "parsed"
       ELSE LET r == link_blocks(bs) IN
            IF r.status = "ok"
            THEN /\ blocks' = r.blocks
                 /\ functions' = extract_functions(r.blocks)
                 /\ cfgPc' = "parsed"
            ELSE blocks' = <<>> /\ functions' = <<>> /\ cfgPc' = r.status
    /\ UNCHANGED <<src, emitted, memVars, exprVars, parseVars, dataVars, preVars>>

Linearize ==
    /\ cfgPc = "parsed"
    /\ emitted' = [f \in 1..Len(functions) |-> linearize_function(blocks, functions[f])]
    /\ cfgPc' = "linearized"
    /\ UNCHANGED <<src, blocks, functions, memVars, exprVars, parseVars, dataVars, preVars>>

NextCfg == parse_cfg \/ Linearize
SpecCfg == InitCfg /\ [][NextCfg]_vars

(***************************************************************************)
(* Properties of the CFG parse_cfg returns and of the linearised code.     *)
(***************************************************************************)
Parsed == cfgPc \in {"parsed", "linearized"}
DefinedLabels == {src[i].label : i \in {k \in 1..Len(src) : IsLabel(src[k])}}
TargetsKnown ==
    \A i \in 1..Len(src) :
        (~IsLabel(src[i]) /\ StartsWithJ(src[i].mnemonic))
            => src[i].operand \in DefinedLabels
\* The name of the block that starts at element j of the text section.
NameAt(j) == IF IsLabel(src[j]) THEN src[j].label ELSE "loc_" \o ToString(j)
BlockNamed(n) == CHOOSE b \in 1..Len(blocks) : blocks[b].name = n
NoJumpIn(b) ==
    \A k \in 1..Len(blocks[b].instructions) :
        LET m == blocks[b].instructions[k].mnemonic
        IN  /\ ~StartsWithJ(m)
            /\ is_terminator(m) => m \in {"ret", "iret", "syscall"}

\* C1: in every CFG parse_cfg produces from a text section whose jump
\* targets are known labels, no block's instruction list holds an instruction
\* whose mnemonic starts with "j", and the only terminators left in the
\* lists are ret, iret and syscall; the physically last block included.
C1_NoJumpsInBlocks ==
    (Parsed /\ TargetsKnown) => \A b \in 1..Len(blocks) : NoJumpIn(b)

\* What does hold: the same for every block but the physically last one.
C1_NoJumpsBeforeLastBlock ==
    (Parsed /\ TargetsKnown) => \A b \in 1..(Len(blocks) - 1) : NoJumpIn(b)

\* The alias table, as the specification gives it.
C9_NoSwap == {"je", "jz", "jl", "jnge", "jg", "jnle", "jb", "jnae", "jc", "ja", "jnbe"}
C9_Swap   == {"jne", "jnz", "jge", "jnl", "jle", "jng", "jae", "jnb", "jnc", "jbe", "jna"}
C9_Canonical(m) ==
    CASE m \in {"je", "jz", "jne", "jnz"}                 -> "je"
      [] m \in {"jl", "jnge", "jge", "jnl"}               -> "jl"
      [] m \in {"jg", "jnle", "jle", "jng"}               -> "jg"
      [] m \in {"jb", "jnae", "jc", "jae", "jnb", "jnc"}  -> "jb"
      [] m \in {"ja", "jnbe", "jbe", "jna"}               -> "ja"
\* Element j is a conditional jump of the table to a known label, and a
\* block follows it physically.
CondJumpAt(j) ==
    /\ j \in 1..(Len(src) - 1)
    /\ ~IsLabel(src[j])
    /\ src[j].mnemonic \in C9_NoSwap \cup C9_Swap
    /\ src[j].operand \in DefinedLabels
\* The block that ended in the jump of element j precedes the block N that
\* starts at element j + 1.
LinkedAsTable(j) ==
    LET m == src[j].mnemonic
        N == BlockNamed(NameAt(j + 1))
        T == BlockNamed(src[j].operand)
        A == N - 1
        kept == blocks[A].instructions
    IN  /\ blocks[A].successor =
              IF m \in C9_Swap
              THEN ConditionalSuccessor(N, T, C9_Canonical(m))
              ELSE ConditionalSuccessor(T, N, C9_Canonical(m))
        /\ \A k \in 1..Len(kept) : kept[k] = src[j - Len(kept) + k - 1]
        /\ \A b \in 1..Len(blocks) : \A k \in 1..Len(blocks[b].instructions) :
              blocks[b].instructions[k].line_number # j

\* C9: for a block ending in a conditional jump with target block T and next
\* physical block N, link_blocks sets the successor to
\* ConditionalSuccessor(true=T, false=N, canonical) for the mnemonics the
\* table lists without swap, to ConditionalSuccessor(true=N, false=T,
\* canonical) for those it lists with swap, and removes the jump, and only
\* the jump, from the instruction list.
C9_ConditionalLink ==
    Parsed => \A j \in 1..Len(src) : CondJumpAt(j) => LinkedAsTable(j)

\* Both cases at once: a jump without swap and a jump with swap, each with a
\* target that is not the next block, linked.
C9_Witness ==
    /\ Parsed
    /\ \E j1, j2 \in 1..Len(src) :
          /\ CondJumpAt(j1) /\ src[j1].mnemonic \in C9_NoSwap
          /\ CondJumpAt(j2) /\ src[j2].mnemonic \in C9_Swap
          /\ \A j \in {j1, j2} :
                /\ BlockNamed(src[j].operand) # BlockNamed(NameAt(j + 1))
                /\ blocks[BlockNamed(NameAt(j + 1)) - 1].successor.kind = "cond"

\* The source shape `cmp; jge L; <next_physical>; ...; L:`, the cmp being
\* element i: the label L is defined after the start of next_physical.
Shape10(i) ==
    /\ i + 2 <= Len(src)
    /\ ~IsLabel(src[i]) /\ src[i].mnemonic = "cmp"
    /\ ~IsLabel(src[i + 1]) /\ src[i + 1].mnemonic = "jge"
    /\ \E q \in (i + 3)..Len(src) : src[q] = Label(src[i + 1].operand)
\* The label that follows position p of a stream.
NextLabelAfter(s, p) ==
    LET qs == {q \in (p + 1)..Len(s) : IsLabel(s[q])}
    IN  IF qs = {} THEN NoneName
        ELSE s[CHOOSE q \in qs : \A r \in qs : q <= r].label
\* Position p of the stream holds the cmp of element i, the last instruction
\* of block A, and next_physical is placed immediately after A.
Placed10(s, p, i) ==
    /\ ~IsLabel(s[p]) /\ s[p].line_number = i
    /\ NextLabelAfter(s, p) = NameAt(i + 2)
Case10(f, i, p) ==
    /\ f \in 1..Len(emitted) /\ i \in 1..Len(src)
    /\ p \in 1..Len(emitted[f].instructions)
    /\ Shape10(i)
    /\ Placed10(emitted[f].instructions, p, i)

\* C10, as the specification states it: for the source shape
\* `cmp; jge L; <next_physical>; ...; L:`, when next_physical is placed
\* immediately after block A, the emitted code for A ends with `jge L` and
\* holds no unconditional jmp.
C10_EndsWithJgeNoJmp ==
    cfgPc = "linearized" =>
        \A f \in 1..Len(emitted) : \A i \in 1..Len(src) :
            \A p \in 1..Len(emitted[f].instructions) :
                Case10(f, i, p) =>
                    LET s == emitted[f].instructions
                    IN  /\ ~IsLabel(s[p + 1])
                        /\ s[p + 1].mnemonic = "jge"
                        /\ s[p + 1].operand = src[i + 1].operand
                        /\ IsLabel(s[p + 2])

\* C10, as the code has it: for the same shape and placement, the emitted
\* code for A ends with the canonical conditional jump `jl <next_physical>`
\* followed by the unconditional `jmp L`, and next_physical's label comes
\* right after; no jge is emitted for A.
C10_EndsWithJlThenJmp ==
    cfgPc = "linearized" =>
        \A f \in 1..Len(emitted) : \A i \in 1..Len(src) :
            \A p \in 1..Len(emitted[f].instructions) :
                Case10(f, i, p) =>
                    LET s == emitted[f].instructions
                    IN  /\ p + 3 <= Len(s)
                        /\ s[p + 1] = Jump("jl", NameAt(i + 2))
                        /\ s[p + 2] = Jump("jmp", src[i + 1].operand)
                        /\ s[p + 3] = Label(NameAt(i + 2))

C10_Witness ==
    /\ cfgPc = "linearized"
    /\ \E f \in 1..Len(emitted) : \E i \in 1..Len(src) :
          \E p \in 1..Len(emitted[f].instructions) :
              /\ Case10(f, i, p)
              /\ emitted[f].instructions[p + 2].mnemonic = "jmp"

\* C11: linearize_function never emits `jmp X` immediately followed by the
\* label `X:`, for any function of any CFG.
C11_NoJmpToNextLabel ==
    \A f \in 1..Len(emitted) :
        LET s == emitted[f].instructions
        IN  \A p \in 1..(Len(s) - 1) :
                (~IsLabel(s[p]) /\ s[p].mnemonic = "jmp" /\ IsLabel(s[p + 1]))
                    => s[p + 1].label # s[p].operand

\* Both outcomes in one stream: a block whose fall-through is the block
\* emitted next gets no jmp, and a block whose fall-through is elsewhere
\* gets a jmp, followed by another label.
C11_Witness ==
    /\ cfgPc = "linearized"
    /\ \E f \in 1..Len(emitted) :
          LET s == emitted[f].instructions
              order == discover_blocks(blocks, functions[f].entry_block)
          IN  /\ \E p \in 1..(Len(s) - 1) :
                    ~IsLabel(s[p]) /\ s[p].mnemonic = "jmp" /\ IsLabel(s[p + 1])
              /\ \E k \in 1..(Len(order) - 1) :
                    /\ get_fallthrough_successor(blocks[order[k]]) = order[k + 1]
                    /\ \E p \in 1..(Len(s) - 1) :
                          /\ ~IsLabel(s[p]) /\ s[p].mnemonic # "jmp"
                          /\ s[p + 1] = Label(blocks[order[k + 1]].name)

(***************************************************************************)
(* dataparser.parser: parse_data on a MemoryManager.                       *)
(*                                                                         *)
(* A source line, after strip_comments, is a section directive or a line   *)
(* with an optional `label:` prefix and an optional directive.  The        *)
(* argument of a directive is kept by what parse_directive and the         *)
(* allocator use of it: the number of values of .int/.long, the length of  *)
(* the string of .asciz/.string/.ascii, the size of .zero/.space/.skip.    *)
(***************************************************************************)
MaxDataLines == 4   \* lines of a generated source

NoLabel == ""                        \* no `label:` prefix; current_label_name is None
AnonymousData == "__anonymous_data"
DataLabels == {"x", "y"}

SectionLine(d) == [section |-> d]
DataLine(l, d, a) == [label |-> l, directive |-> d, arg |-> a]
IsSection(line) == "section" \in DOMAIN line

\* A MemoryManager as a value: [alignment, cursor, allocs].  The two calls
\* of the Allocator protocol, with the Allocation they return or the error
\* they raise.
AllocateData(m, value, name) ==
    IF value.kind = "list" /\ value.len = 0
    THEN [status |-> "ValueError", m |-> m, offset |-> 0, size |-> 0]
    ELSE [status |-> "ok",
          m |-> [m EXCEPT
                   !.allocs = @ \o RegisterAppended(m.cursor, m.alignment, name,
                                     DataSize(value), DataDirective(value), "value"),
                   !.cursor = RegisterOffset(m.cursor, m.alignment) + DataSize(value)],
          offset |-> RegisterOffset(m.cursor, m.alignment),
          size |-> DataSize(value)]

AllocateEmpty(m, size, name) ==
    IF size <= 0
    THEN [status |-> "ValueError", m |-> m, offset |-> 0, size |-> 0]
    ELSE [status |-> "ok",
          m |-> [m EXCEPT
                   !.allocs = @ \o RegisterAppended(m.cursor, m.alignment, name,
                                     size, ".zero", "None"),
                   !.cursor = RegisterOffset(m.cursor, m.alignment) + size],
          offset |-> RegisterOffset(m.cursor, m.alignment),
          size |-> size]

\* parse_directive: the call it makes on the allocator, if any, and what it
\* returns: an Allocation, or None (also when allocate_empty raised, which
\* the except clause of lines 100-101 catches).
NoCall(m) == [called |-> FALSE, m |-> m, returned |-> FALSE]
Called(fn, arg, name, r) ==
    [called |-> TRUE, m |-> r.m, returned |-> (r.status = "ok"),
     call |-> [fn |-> fn, arg |-> arg, name |-> name, status |-> r.status,
               offset |-> r.offset, size |-> r.size]]

parse_directive(m, directive, arg, label_name) ==
    CASE directive \in {".int", ".long"} ->
            IF arg = 0 THEN NoCall(m)
            ELSE LET value == IF arg = 1 THEN [kind |-> "int"]
                              ELSE [kind |-> "list", len |-> arg, hasFloat |-> FALSE]
                 IN  Called("allocate_data", arg, label_name,
                            AllocateData(m, value, label_name))
      [] directive \in {".asciz", ".string", ".ascii"} ->
            Called("allocate_data", arg, label_name,
                   AllocateData(m, [kind |-> "str", len |-> arg], label_name))
      [] directive \in {".zero", ".space", ".skip"} ->
            Called("allocate_empty", arg, label_name,
                   AllocateEmpty(m, arg, label_name))
      [] OTHER -> NoCall(m)

\* The dictionary `labels`, in insertion order: a sequence of
\* [label, allocations].
HasKey(labels, l) == \E k \in 1..Len(labels) : labels[k].label = l
WithKey(labels, l) ==
    IF HasKey(labels, l) THEN labels
    ELSE Append(labels, [label |-> l, allocations |-> <<>>])
AppendUnder(labels, l, al) ==
    [k \in 1..Len(labels) |->
        IF labels[k].label = l
        THEN [labels[k] EXCEPT !.allocations = Append(@, al)]
        ELSE labels[k]]

\* current_label_name after the label part of a line was read.
MutSeenLabel(current, line) == line.label
SeenLabel(current, line) ==
    IF line.label # NoLabel THEN line.label ELSE current

\* One turn of the loop of parse_data, for a line of the data section.
ParseDataLine(st, line) ==
    LET seen == SeenLabel(st.current, line)
        st1  == [st EXCEPT !.current = seen,
                           !.labels = IF line.label # NoLabel
                                      THEN WithKey(@, seen) ELSE @]
    IN  IF line.label # NoLabel /\ line.directive = ""
        THEN st1
        ELSE
        LET name == IF st1.current = NoLabel THEN AnonymousData ELSE st1.current
            st2  == [st1 EXCEPT !.current = name, !.labels = WithKey(@, name)]
            r    == parse_directive(st2.m, line.directive, line.arg, name)
            st3  == [st2 EXCEPT !.m = r.m,
                                !.calls = IF r.called THEN Append(@, r.call) ELSE @]
        IN  IF r.returned
            THEN [st3 EXCEPT !.labels =
                     AppendUnder(@, name, [offset |-> r.call.offset,
                                           size |-> r.call.size])]
            ELSE st3

\* filter_data_section and the loop of parse_data.
RECURSIVE ParseDataFrom(_, _, _)
ParseDataFrom(lines, i, st) ==
    IF i > Len(lines) THEN st
    ELSE LET line == lines[i] IN
         IF IsSection(line)
         THEN ParseDataFrom(lines, i + 1, [st EXCEPT !.in_data = (line.section = ".data")])
         ELSE IF st.in_data
         THEN ParseDataFrom(lines, i + 1, ParseDataLine(st, line))
         ELSE ParseDataFrom(lines, i + 1, st)

parse_data(m, lines) ==
    ParseDataFrom(lines, 1,
        [in_data |-> FALSE, current |-> NoLabel, m |-> m, calls |-> <<>>,
         labels |-> <<>>])

\* The sources: up to MaxDataLines lines over a small alphabet, and one
\* line of every directive after `.data`, with and without a label.
DataDirectives == {<<"", 0>>, <<".int", 1>>, <<".asciz", 1>>, <<".zero", 0>>}
DataAlphabet ==
    {SectionLine(".data"), SectionLine(".text")}
    \cup ({DataLine(l, d[1], d[2]) : l \in DataLabels \cup {NoLabel}, d \in DataDirectives}
          \ {DataLine(NoLabel, "", 0)})
GeneralData == UNION {[1..n -> DataAlphabet] : n \in 0..MaxDataLines}
AllDirectives ==
    {<<d, a>> : d \in {".int", ".long"}, a \in 0..2}
    \cup {<<d, a>> : d \in {".asciz", ".string", ".ascii"}, a \in 0..1}
    \cup {<<d, a>> : d \in {".zero", ".space", ".skip"}, a \in (-1)..2}
    \cup {<<".byte", 1>>}
TableData ==
    {<<SectionLine(".data"), DataLine(l, d[1], d[2]), DataLine(NoLabel, ".int", 1)>> :
        l \in {"x", NoLabel}, d \in AllDirectives}
DataSources == GeneralData \cup TableData

InitData ==
    /\ dsrc \in DataSources
    /\ dcalls = <<>> /\ dmap = <<>> /\ dPc = "source"
    /\ alignment = 4 /\ current_offset = 0 /\ allocations = <<>>
    /\ memResult = [status |-> "none"]
    /\ ExprIdle /\ ParseIdle /\ CfgIdle /\ PreIdle

ParseData ==
    /\ dPc = "source"
    /\ LET st == parse_data([alignment |-> alignment, cursor |-> current_offset,
                             allocs |-> allocations], dsrc)
       IN  /\ dcalls' = st.calls
           /\ dmap' = st.labels
           /\ allocations' = st.m.allocs
           /\ current_offset' = st.m.cursor
    /\ dPc' = "returned"
    /\ UNCHANGED <<dsrc, alignment, memResult, exprVars, parseVars, cfgVars, preVars>>

NextData == ParseData
SpecData == InitData /\ [][NextData]_vars

\* What the source says, read without the parser: line i lies in the data
\* section when the last section directive before it is `.data`.
InDataAt(i) ==
    /\ ~IsSection(dsrc[i])
    /\ LET secs == {j \in 1..(i - 1) : IsSection(dsrc[j])}
       IN  /\ secs # {}
           /\ dsrc[CHOOSE j \in secs : \A k \in secs : k <= j].section = ".data"
\* The most recently seen label at line i, the line's own prefix included.
LabelSeenAt(i) ==
    LET ls == {j \in 1..i : InDataAt(j) /\ dsrc[j].label # NoLabel}
    IN  IF ls = {} THEN AnonymousData
        ELSE dsrc[CHOOSE j \in ls : \A k \in ls : k <= j].label
\* Line i holds a recognized data directive with something to allocate.
RecognizedAt(i) ==
    /\ InDataAt(i)
    /\ \/ dsrc[i].directive \in {".int", ".long"} /\ dsrc[i].arg > 0
       \/ dsrc[i].directive \in {".asciz", ".string", ".ascii"}
       \/ dsrc[i].directive \in {".zero", ".space", ".skip"}
CallLines == {i \in 1..Len(dsrc) : RecognizedAt(i)}
\* The line of the k-th call.
CallLine(k) ==
    CHOOSE i \in CallLines : Cardinality({j \in CallLines : j < i}) = k - 1
ReturnedUnder(l) ==
    LET made == SelectSeq(dcalls, LAMBDA c : c.name = l /\ c.status = "ok")
    IN  [k \in 1..Len(made) |-> [offset |-> made[k].offset, size |-> made[k].size]]

C13_WitnessTwoUnderLabel ==
    /\ dPc = "returned"
    /\ \E a \in 1..Len(dmap) :
          /\ Len(dmap[a].allocations) = 2
          /\ dmap[a].allocations[1].offset < dmap[a].allocations[2].offset
    /\ \E k \in 1..Len(dcalls) : dsrc[CallLine(k)].label = NoLabel

\* C15: when the data section holds a .zero/.space/.skip directive with a
\* non-positive size, the allocator's "Size must be positive" error
\* propagates out of parse_data: parse_data does not return.
C15_NonPositiveSizeFails ==
    (\E i \in 1..Len(dsrc) :
        /\ InDataAt(i)
        /\ dsrc[i].directive \in {".zero", ".space", ".skip"}
        /\ dsrc[i].arg <= 0)
    => dPc # "returned"

\* What the code does instead: the call is made, it raises, parse_directive
\* catches the error, and parse_data goes on and returns a map that lists
\* nothing for the directive.
C15_ErrorIsSwallowed ==
    dPc = "returned" =>
        \A k \in 1..Len(dcalls) :
            dcalls[k].status = "ValueError" =>
                /\ dcalls[k].fn = "allocate_empty" /\ dcalls[k].arg <= 0
                /\ HasKey(dmap, dcalls[k].name)

\* Element i of the text section is a jump, conditional or not, whose target
\* is not the label of a block: the operand is missing, is not a memory
\* operand, or names no label of the section.
UnresolvedJumpAt(i) ==
    /\ ~IsLabel(src[i])
    /\ is_terminator(src[i].mnemonic) /\ ~is_return(src[i].mnemonic)
    /\ src[i].operand \notin DefinedLabels

\* C16: link_blocks fails with an error whenever a block ends in a
\* conditional or unconditional jump whose target is not the label of a known
\* block, also when that block is the last one of the source and when the
\* operand is not a memory operand; no CFG with a missing or wrong successor
\* for such a block is returned.
C16_UnresolvedTargetFails ==
    (cfgPc # "source" /\ \E i \in 1..Len(src) : UnresolvedJumpAt(i))
        => (cfgPc \in Raised /\ blocks = <<>> /\ functions = <<>>)

\* C16 witness: the physically last block ends in a conditional jump to a
\* label that is not defined, and link_blocks raised.
C16_Witness ==
    /\ cfgPc = "LookupError"
    /\ Len(src) >= 2
    /\ UnresolvedJumpAt(Len(src))
    /\ src[Len(src)].mnemonic \in ConditionalMnemonics
    /\ src[Len(src)].operand = UnknownLabel
    /\ \A i \in 1..(Len(src) - 1) : ~UnresolvedJumpAt(i)

(***************************************************************************)
(* blockpreprocessor: resolve_symbols, expand_stack_ops and                *)
(* inject_context_switching, on a CFG whose instructions carry typed       *)
(* operands (textparser.models).  A register is written by its value       *)
(* ("%eax"); the enum member's name ("EAX") is RegName of it.              *)
(*                                                                         *)
(* preprocess_cfg names the order of the passes (parse, resolve symbols,   *)
(* expand stack operations, inject context switching); each pass is        *)
(* modelled by its own signature, and preprocess_cfg by its own body.      *)
(***************************************************************************)
MaxBlockLen == 2   \* instructions of a generated block

data_label == "__GLOBAL_MEM"

TRACKED_REGISTERS ==
    <<"%eax", "%ebx", "%ecx", "%edx", "%esi", "%edi", "%ebp", "%esp">>
Registers ==
    {"%eax", "%ebx", "%ecx", "%edx", "%esi", "%edi", "%ebp", "%esp",
     "%ax", "%bx", "%cx", "%dx", "%si", "%di", "%bp", "%sp",
     "%al", "%bl", "%cl", "%dl", "%ah", "%bh", "%ch", "%dh"}
Tracked == {TRACKED_REGISTERS[k] : k \in 1..Len(TRACKED_REGISTERS)}
RegName(r) ==
    CASE r = "%eax" -> "EAX" [] r = "%ebx" -> "EBX" [] r = "%ecx" -> "ECX"
      [] r = "%edx" -> "EDX" [] r = "%esi" -> "ESI" [] r = "%edi" -> "EDI"
      [] r = "%ebp" -> "EBP" [] r = "%esp" -> "ESP"

\* The three kinds of Operand.  NoReg stands for base/index None; the
\* displacement of a MemoryOperand defaults to Expression("0"), where a str
\* argument makes the term 1 * "0".
NoReg == "None"
RegisterOperand(r) == [kind |-> "reg", reg |-> r]
ImmediateOperand(e) == [kind |-> "imm", value |-> e]
MemoryOperand(b, i, s, d) ==
    [kind |-> "mem", base |-> b, index |-> i, scale |-> s, displacement |-> d]
DefaultDisplacement == ExprSym("0")
BaseOperand(b) == MemoryOperand(b, NoReg, 1, DefaultDisplacement)
DisplacementOperand(d) == MemoryOperand(NoReg, NoReg, 1, d)

\* Instruction(mnemonic, operands), with the default line number 0.
Instr(m, ops) == [mnemonic |-> m, operands |-> ops, line_number |-> 0]

\* utils.iter_blocks: the blocks in the order they are yielded; the stack is
\* popped from its end and `visited` is shared by all the functions.
RECURSIVE IterStack(_, _, _)
IterStack(bs, stack, visited) ==
    IF stack = <<>> THEN [order |-> <<>>, visited |-> visited]
    ELSE LET block == stack[Len(stack)]
             rest  == SubSeq(stack, 1, Len(stack) - 1)
         IN  IF block \in visited THEN IterStack(bs, rest, visited)
             ELSE LET s == bs[block].successor
                      pushed ==
                          CASE s.kind = "direct" -> <<s.block>>
                            [] s.kind = "cond"   -> <<s.true_block, s.false_block>>
                            [] OTHER             -> <<>>
                      r == IterStack(bs, rest \o pushed, visited \cup {block})
                  IN  [order |-> <<block>> \o r.order, visited |-> r.visited]

RECURSIVE IterFunctions(_, _, _, _)
IterFunctions(bs, fns, i, visited) ==
    IF i > Len(fns) THEN <<>>
    ELSE LET r == IterStack(bs, <<fns[i].entry_block>>, visited)
         IN  r.order \o IterFunctions(bs, fns, i + 1, r.visited)
iter_blocks(bs, fns) == IterFunctions(bs, fns, 1, {})
Yielded(bs, fns) ==
    LET order == iter_blocks(bs, fns) IN {order[k] : k \in 1..Len(order)}

(***************************************************************************)
(* blockpreprocessor/symbols.py and the symbol_offsets of preprocess_cfg.  *)
(***************************************************************************)
\* symbol_offsets: the offset of the first allocation of every label of the
\* data map that has an allocation.
symbol_offsets(data_map) ==
    LET with == {k \in 1..Len(data_map) : data_map[k].allocations # <<>>}
    IN  [name \in {data_map[k].label : k \in with} |->
            data_map[CHOOSE k \in with : data_map[k].label = name]
                .allocations[1].offset]

\* resolve_expression: the loop over the symbols of the expression that are
\* in `offsets`.
RECURSIVE ResolveTargets(_, _, _, _)
ResolveTargets(result, targets, offsets, label) ==
    IF targets = {} THEN result
    ELSE LET sym == CHOOSE s \in targets : TRUE
             replacement == Add(ExprSym(label), OpInt(offsets[sym]))
         IN  ResolveTargets(SubstituteTerm(result, sym, OpExpr(replacement)),
                            targets \ {sym}, offsets, label)

resolve_expression(expr, offsets, label) ==
    LET result  == ExprCopy(expr)
        targets == {s \in SymbolsOf(result) : s \in DOMAIN offsets}
    IN  ResolveTargets(result, targets, offsets, label)

MutResolveOperand(op, offsets, label) ==
    IF op.kind = "imm"
    THEN ImmediateOperand(resolve_expression(op.value, offsets, label))
    ELSE op

resolve_operand(op, offsets, label) ==
    CASE op.kind = "imm" ->
            ImmediateOperand(resolve_expression(op.value, offsets, label))
      [] op.kind = "mem" ->
            MemoryOperand(op.base, op.index, op.scale,
                          resolve_expression(op.displacement, offsets, label))
      [] OTHER -> op

resolve_instruction(instr, offsets, label) ==
    [instr EXCEPT !.operands =
        [k \in 1..Len(@) |-> resolve_operand(@[k], offsets, label)]]

\* resolve_symbols: every instruction of every block iter_blocks yields.
resolve_symbols(bs, fns, offsets, label) ==
    LET yielded == Yielded(bs, fns)
    IN  [b \in 1..Len(bs) |->
            IF b \in yielded
            THEN [bs[b] EXCEPT !.instructions =
                    [k \in 1..Len(@) |-> resolve_instruction(@[k], offsets, label)]]
            ELSE bs[b]]

(***************************************************************************)
(* blockpreprocessor/expansion.py                                          *)
(***************************************************************************)
ESP == "%esp"
EAX == "%eax"
EBX == "%ebx"

get_safe_scratch(op) ==
    IF op.kind = "mem" /\ EAX \in {op.base, op.index} THEN EBX ELSE EAX

scratch_op(reg, offset, label, is_load) ==
    LET mem == DisplacementOperand(Add(ExprSym(label), OpInt(offset)))
    IN  IF is_load THEN Instr("movl", <<mem, RegisterOperand(reg)>>)
        ELSE Instr("movl", <<RegisterOperand(reg), mem>>)

AdjustEsp(m) == Instr(m, <<ImmediateOperand(ExprInt(4)), RegisterOperand(ESP)>>)

MutExpandPush(instr, scratch_offset, label) ==
    LET source == instr.operands[1] IN
    IF source.kind # "mem"
    THEN <<AdjustEsp("subl"), Instr("movl", <<source, BaseOperand(ESP)>>)>>
    ELSE LET tmp == get_safe_scratch(source)
         IN  <<scratch_op(tmp, scratch_offset, label, FALSE),
               Instr("movl", <<source, RegisterOperand(tmp)>>),
               AdjustEsp("subl"),
               Instr("movl", <<RegisterOperand(tmp), BaseOperand(ESP)>>),
               scratch_op(tmp, scratch_offset, label, TRUE)>>

expand_push(instr, scratch_offset, label) ==
    LET source == instr.operands[1] IN
    IF source = RegisterOperand(ESP)
    THEN <<Instr("movl", <<RegisterOperand(ESP),
                           MemoryOperand(ESP, NoReg, 1, ExprInt(-4))>>),
           AdjustEsp("subl")>>
    ELSE IF source.kind # "mem"
    THEN <<AdjustEsp("subl"), Instr("movl", <<source, BaseOperand(ESP)>>)>>
    ELSE LET tmp == get_safe_scratch(source)
         IN  <<scratch_op(tmp, scratch_offset, label, FALSE),
               Instr("movl", <<source, RegisterOperand(tmp)>>),
               AdjustEsp("subl"),
               Instr("movl", <<RegisterOperand(tmp), BaseOperand(ESP)>>),
               scratch_op(tmp, scratch_offset, label, TRUE)>>

expand_pop(instr, scratch_offset, label) ==
    LET dst == instr.operands[1] IN
    IF dst = RegisterOperand(ESP)
    THEN <<Instr("movl", <<BaseOperand(ESP), RegisterOperand(ESP)>>)>>
    ELSE IF dst.kind # "mem"
    THEN <<Instr("movl", <<BaseOperand(ESP), dst>>), AdjustEsp("addl")>>
    ELSE LET tmp == get_safe_scratch(dst)
         IN  <<scratch_op(tmp, scratch_offset, label, FALSE),
               Instr("movl", <<BaseOperand(ESP), RegisterOperand(tmp)>>),
               AdjustEsp("addl"),
               Instr("movl", <<RegisterOperand(tmp), dst>>),
               scratch_op(tmp, scratch_offset, label, TRUE)>>

expand_instruction(instr, scratch_offset, label) ==
    CASE instr.mnemonic = "pushl" -> expand_push(instr, scratch_offset, label)
      [] instr.mnemonic = "popl"  -> expand_pop(instr, scratch_offset, label)
      [] OTHER                    -> <<instr>>

\* chain.from_iterable(expand_instruction(i, ...) for i in block.instructions)
RECURSIVE ExpandFrom(_, _, _, _)
ExpandFrom(instructions, k, scratch_offset, label) ==
    IF k > Len(instructions) THEN <<>>
    ELSE expand_instruction(instructions[k], scratch_offset, label)
         \o ExpandFrom(instructions, k + 1, scratch_offset, label)

expand_stack_ops(bs, fns, scratch_offset, label) ==
    LET yielded == Yielded(bs, fns)
    IN  [b \in 1..Len(bs) |->
            IF b \in yielded
            THEN [bs[b] EXCEPT !.instructions =
                    ExpandFrom(@, 1, scratch_offset, label)]
            ELSE bs[b]]

(***************************************************************************)
(* Strings as Python compares them.  Chars gives the characters of the     *)
(* mnemonics and register values of the model; AsciiOrder lists the        *)
(* characters they use by code point.                                      *)
(***************************************************************************)
SpellingTable ==
    {<<"%eax", <<"%", "e", "a", "x">>>>,
     <<"%ebx", <<"%", "e", "b", "x">>>>,
     <<"%ecx", <<"%", "e", "c", "x">>>>,
     <<"%edx", <<"%", "e", "d", "x">>>>,
     <<"%esi", <<"%", "e", "s", "i">>>>,
     <<"%edi", <<"%", "e", "d", "i">>>>,
     <<"%ebp", <<"%", "e", "b", "p">>>>,
     <<"%esp", <<"%", "e", "s", "p">>>>,
     <<"movl", <<"m", "o", "v", "l">>>>,
     <<"addl", <<"a", "d", "d", "l">>>>,
     <<"subl", <<"s", "u", "b", "l">>>>,
     <<"incl", <<"i", "n", "c", "l">>>>,
     <<"pushl", <<"p", "u", "s", "h", "l">>>>,
     <<"popl", <<"p", "o", "p", "l">>>>,
     <<"push", <<"p", "u", "s", "h">>>>,
     <<"ret", <<"r", "e", "t">>>>,
     <<"jmp", <<"j", "m", "p">>>>,
     <<"je", <<"j", "e">>>>,
     <<"cmp", <<"c", "m", "p">>>>,
     <<"mul", <<"m", "u", "l">>>>,
     <<"mull", <<"m", "u", "l", "l">>>>,
     <<"div", <<"d", "i", "v">>>>,
     <<"divl", <<"d", "i", "v", "l">>>>,
     <<"idiv", <<"i", "d", "i", "v">>>>,
     <<"idivl", <<"i", "d", "i", "v", "l">>>>,
     <<"cdq", <<"c", "d", "q">>>>,
     <<"cwd", <<"c", "w", "d">>>>,
     <<"cwde", <<"c", "w", "d", "e">>>>,
     <<"cbw", <<"c", "b", "w">>>>,
     <<"imul", <<"i", "m", "u", "l">>>>,
     <<"imull", <<"i", "m", "u", "l", "l">>>>,
     <<"cltd", <<"c", "l", "t", "d">>>>,
     <<"cwtl", <<"c", "w", "t", "l">>>>,
     <<"MUL", <<"M", "U", "L">>>>,
     <<"Cwde", <<"C", "w", "d", "e">>>>,
     <<"nop", <<"n", "o", "p">>>>}

AsciiOrder ==
    <<"%", "A", "B", "C", "D", "E", "F", "G", "H", "I", "J", "K", "L",
    "M", "N", "O", "P", "Q", "R", "S", "T", "U", "V", "W", "X", "Y", "Z",
    "a", "b", "c", "d", "e", "f", "g", "h", "i", "j", "k", "l", "m", "n",
    "o", "p", "q", "r", "s", "t", "u", "v", "w", "x", "y", "z">>
Chars(s) == (CHOOSE p \in SpellingTable : p[1] = s)[2]
Ord(ch) == CHOOSE k \in 1..Len(AsciiOrder) : AsciiOrder[k] = ch

\* str.lower and str.startswith
LowerChar(ch) == IF Ord(ch) \in 2..27 THEN AsciiOrder[Ord(ch) + 26] ELSE ch
Lower(chars) == [k \in 1..Len(chars) |-> LowerChar(chars[k])]
StartsWith(chars, prefix) ==
    Len(prefix) <= Len(chars) /\ SubSeq(chars, 1, Len(prefix)) = prefix

\* a < b on str
RECURSIVE StrLess(_, _)
StrLess(a, b) ==
    IF a = <<>> THEN b # <<>>
    ELSE IF b = <<>> THEN FALSE
    ELSE IF Ord(Head(a)) # Ord(Head(b)) THEN Ord(Head(a)) < Ord(Head(b))
    ELSE StrLess(Tail(a), Tail(b))

(***************************************************************************)
(* blockpreprocessor/context.py                                            *)
(***************************************************************************)
\* RegisterOperand.get_32bit_counterpart: the 32-bit register that contains
\* a partial register.
get_32bit_counterpart(r) ==
    CASE r \in {"%eax", "%ax", "%al", "%ah"} -> "%eax"
      [] r \in {"%ebx", "%bx", "%bl", "%bh"} -> "%ebx"
      [] r \in {"%ecx", "%cx", "%cl", "%ch"} -> "%ecx"
      [] r \in {"%edx", "%dx", "%dl", "%dh"} -> "%edx"
      [] r \in {"%esi", "%si"} -> "%esi"
      [] r \in {"%edi", "%di"} -> "%edi"
      [] r \in {"%ebp", "%bp"} -> "%ebp"
      [] r \in {"%esp", "%sp"} -> "%esp"

\* implicit_map, in the order of the dict.
implicit_map ==
    <<[key |-> "mul",  regs |-> {"%eax", "%edx"}],
      [key |-> "div",  regs |-> {"%eax", "%edx"}],
      [key |-> "idiv", regs |-> {"%eax", "%edx"}],
      [key |-> "cdq",  regs |-> {"%eax", "%edx"}],
      [key |-> "cwd",  regs |-> {"%eax", "%edx"}],
      [key |-> "cbw",  regs |-> {"%eax"}],
      [key |-> "cwde", regs |-> {"%eax"}]>>

\* get_implicit_registers: the first key of implicit_map the mnemonic starts
\* with decides; then the special case of imul.
get_implicit_registers(instr) ==
    LET mnem == Lower(Chars(instr.mnemonic))
        hits == {k \in 1..Len(implicit_map) :
                    StartsWith(mnem, Chars(implicit_map[k].key))}
    IN  IF hits # {}
        THEN LET first == CHOOSE k \in hits : \A j \in hits : k <= j
             IN  {get_32bit_counterpart(r) : r \in implicit_map[first].regs}
        ELSE IF StartsWith(mnem, Chars("imul")) /\ Len(instr.operands) = 1
        THEN {"%eax", "%edx"}
        ELSE {}

\* The registers one operand contributes to `used`.
OperandRegisters(op) ==
    CASE op.kind = "reg" -> {get_32bit_counterpart(op.reg)}
      [] op.kind = "mem" ->
            {get_32bit_counterpart(r) : r \in {op.base, op.index} \ {NoReg}}
      [] OTHER -> {}

get_used_registers(instructions) ==
    LET used == UNION {UNION {OperandRegisters(instructions[k].operands[j]) :
                                 j \in 1..Len(instructions[k].operands)}
                       \cup get_implicit_registers(instructions[k])
                       : k \in 1..Len(instructions)}
    IN  {r \in used : r \in Tracked}

\* sorted(used_regs, key=lambda r: r.value)
MutSortedRegs(used_regs) ==
    SelectSeq(TRACKED_REGISTERS, LAMBDA r : r \in used_regs)
sorted_regs(used_regs) ==
    [i \in 1..Cardinality(used_regs) |->
        CHOOSE r \in used_regs :
            Cardinality({q \in used_regs : StrLess(Chars(q), Chars(r))}) = i - 1]

create_load(reg, offset, label) ==
    Instr("movl", <<DisplacementOperand(Add(ExprSym(label), OpInt(offset))),
                    RegisterOperand(reg)>>)
create_save(reg, offset, label) ==
    Instr("movl", <<RegisterOperand(reg),
                    DisplacementOperand(Add(ExprSym(label), OpInt(offset)))>>)

instrument_block(block, reg_offsets, label) ==
    LET used_regs == get_used_registers(block.instructions)
        order     == sorted_regs(used_regs)
        prologue  == [k \in 1..Len(order) |->
                        create_load(order[k], reg_offsets[order[k]], label)]
        epilogue  == [k \in 1..Len(order) |->
                        create_save(order[k], reg_offsets[order[k]], label)]
    IN  IF used_regs = {} THEN block
        ELSE [block EXCEPT !.instructions = prologue \o @ \o epilogue]

\* allocate_virtual_registers: allocate_data(0, reg.name) for every tracked
\* register, in order; m is the MemoryManager.
RECURSIVE AllocateRegisters(_, _, _)
AllocateRegisters(m, k, offsets) ==
    IF k > Len(TRACKED_REGISTERS) THEN [m |-> m, offsets |-> offsets]
    ELSE LET reg   == TRACKED_REGISTERS[k]
             alloc == AllocateData(m, [kind |-> "int"], RegName(reg))
         IN  AllocateRegisters(alloc.m, k + 1,
                 [r \in DOMAIN offsets \cup {reg} |->
                     IF r = reg THEN alloc.offset ELSE offsets[r]])
allocate_virtual_registers(m) == AllocateRegisters(m, 1, <<>>)

\* blockpreprocessor.models.Function
CfgFunction(n, b, p) == [name |-> n, entry_block |-> b, prologue |-> p]

MutPrologue(reg_offsets, label) ==
    [k \in 1..Len(TRACKED_REGISTERS) |->
        create_save(TRACKED_REGISTERS[k], reg_offsets[TRACKED_REGISTERS[1]], label)]
Prologue(reg_offsets, label) ==
    [k \in 1..Len(TRACKED_REGISTERS) |->
        create_save(TRACKED_REGISTERS[k], reg_offsets[TRACKED_REGISTERS[k]], label)]

\* inject_context_switching: the new functions, the blocks after
\* instrument_block and the renaming of the entry blocks, and the allocator.
inject_context_switching(bs, fns, m, label) ==
    LET a   == allocate_virtual_registers(m)
        out == [f \in 1..Len(fns) |->
                  CfgFunction(fns[f].name, fns[f].entry_block,
                              Prologue(a.offsets, label))]
        yielded == Yielded(bs, out)
        instrumented ==
            [b \in 1..Len(bs) |->
                IF b \in yielded THEN instrument_block(bs[b], a.offsets, label)
                ELSE bs[b]]
        entries(b) == {f \in 1..Len(out) : out[f].entry_block = b}
        renamed ==
            [b \in 1..Len(bs) |->
                IF entries(b) = {} THEN instrumented[b]
                ELSE LET last == CHOOSE f \in entries(b) : \A g \in entries(b) : g <= f
                     IN  [instrumented[b] EXCEPT
                            !.name = out[last].name \o "__entry_block"]]
    IN  [functions |-> out, blocks |-> renamed, m |-> a.m]

(***************************************************************************)
(* The preprocessing passes on a parsed program.  The data section is one  *)
(* of a few sources handed to parse_data; the CFG is one block, or one of  *)
(* a few shapes of blocks, whose instructions come from the tables below.  *)
(***************************************************************************)
\* Data sections: none; x and y with one allocation each (the cursor ends
\* unaligned); x with two allocations and y with none.
PreDataSources ==
    {<<>>,
     <<SectionLine(".data"), DataLine("x", ".int", 1), DataLine("y", ".asciz", 1)>>,
     <<SectionLine(".data"), DataLine(NoLabel, ".asciz", 1), DataLine("x", ".int", 1),
       DataLine(NoLabel, ".int", 1), DataLine("y", "", 0)>>}
FullData ==
    <<SectionLine(".data"), DataLine("x", ".int", 1), DataLine("y", ".asciz", 1)>>

\* Expressions over the data labels x and y and a symbol that is no data label.
PreSymbols == {"x", "y", "ext"}
SymExprs ==
    UNION {{[c |-> k, t |-> f] : k \in {0, 1}, f \in [D -> {-1, 1, 2}]}
           : D \in SUBSET PreSymbols}

\* One instruction with an operand of every kind on an expression.
ResolveBodies ==
    {<<Instr("movl", <<op, RegisterOperand("%ebx")>>)>> :
        op \in UNION {{ImmediateOperand(e), DisplacementOperand(e),
                       MemoryOperand("%esi", "%edi", 4, e)} : e \in SymExprs}}

\* A push of every kind of operand and a pop of every kind of destination,
\* between two other instructions.
StackOperands ==
    {RegisterOperand(r) : r \in Tracked \cup {"%ax"}}
    \cup {ImmediateOperand(ExprInt(4)), ImmediateOperand(ExprSym("x"))}
    \cup {BaseOperand(r) : r \in {"%eax", "%ebx", "%esp"}}
    \cup {MemoryOperand("%ebx", "%eax", 2, ExprInt(8)),
          MemoryOperand("%ecx", "%edx", 1, ExprSym("y")),
          DisplacementOperand(ExprSym("x"))}
StackBodies ==
    {<<Instr("incl", <<RegisterOperand("%ecx")>>), Instr(m, <<op>>),
       Instr("ret", <<>>)>> :
        m \in {"pushl", "push"}, op \in StackOperands}
    \cup {<<Instr("incl", <<RegisterOperand("%ecx")>>), Instr("popl", <<op>>),
            Instr("ret", <<>>)>> :
            op \in {o \in StackOperands : o.kind # "imm"}}

\* Every pair of registers as operands, and as base and index.
RegisterBodies ==
    {<<Instr("movl", <<RegisterOperand(r1), RegisterOperand(r2)>>)>> :
        r1 \in Registers, r2 \in Registers}
    \cup {<<Instr("movl", <<ImmediateOperand(ExprInt(1)),
                            MemoryOperand(b, i, 1, DefaultDisplacement)>>)>> :
            b \in Tracked \cup {NoReg, "%si"}, i \in Tracked \cup {NoReg, "%bx"}}

\* Every mnemonic of the model but the two expand_stack_ops rewrites, with
\* zero to three immediate operands.
Mnemonics == {p[1] : p \in SpellingTable} \ (Tracked \cup {"pushl", "popl"})
ImplicitBodies ==
    {<<Instr(m, [k \in 1..n |-> ImmediateOperand(ExprInt(k))])>> :
        m \in Mnemonics, n \in 0..3}

\* Blocks of up to MaxBlockLen instructions over a small alphabet.
PreAlphabet ==
    {Instr("pushl", <<DisplacementOperand(ExprSym("x"))>>),
     Instr("popl", <<RegisterOperand("%ebx")>>),
     Instr("movl", <<DisplacementOperand(ExprSym("y")), RegisterOperand("%al")>>),
     Instr("movl", <<ImmediateOperand(Add(ExprSym("x"), OpInt(4))),
                     MemoryOperand(NoReg, "%esi", 4, ExprSym("ext"))>>),
     Instr("cwde", <<>>),
     Instr("ret", <<>>)}
GeneralBodies == UNION {[1..n -> PreAlphabet] : n \in 0..MaxBlockLen}

\* parse_elements gives the instruction of line i the line number i.
NumberedBody(body, first) ==
    [k \in 1..Len(body) |-> [body[k] EXCEPT !.line_number = first + k]]
TypedBlock(n, body, first, succ) ==
    [name |-> n, instructions |-> NumberedBody(body, first), successor |-> succ]

\* The shapes: f alone; f falling through to L1; f looping on itself with
\* the exit L1; f and a second function g that jumps to f.
ShapeBodies ==
    {<<>>,
     <<Instr("pushl", <<RegisterOperand("%esp")>>)>>,
     <<Instr("movl", <<DisplacementOperand(ExprSym("x")), RegisterOperand("%edi")>>)>>,
     <<Instr("nop", <<>>)>>}
Return == <<Instr("ret", <<>>)>>
JumpTo(n) == <<Instr("jmp", <<DisplacementOperand(ExprSym(n))>>)>>
Shapes(body) ==
    {<<TypedBlock("f", body, 1, DirectSuccessor(2)),
       TypedBlock("L1", Return, 5, NoSuccessor)>>,
     <<TypedBlock("f", body, 1, ConditionalSuccessor(1, 2, "je")),
       TypedBlock("L1", Return, 5, NoSuccessor)>>,
     <<TypedBlock("f", body \o Return, 1, NoSuccessor),
       TypedBlock("g", body \o JumpTo("f"), 5, DirectSuccessor(1))>>,
     <<TypedBlock("f", body, 1, ConditionalSuccessor(3, 2, "jl")),
       TypedBlock("L1", body \o JumpTo("f"), 5, DirectSuccessor(1)),
       TypedBlock("L2", Return, 9, NoSuccessor)>>}

PrePrograms ==
    {[data |-> d, blocks |-> <<TypedBlock("f", body, 1, NoSuccessor)>>] :
        d \in PreDataSources, body \in ResolveBodies \cup GeneralBodies}
    \cup {[data |-> FullData, blocks |-> <<TypedBlock("f", body, 1, NoSuccessor)>>] :
            body \in StackBodies \cup RegisterBodies \cup ImplicitBodies}
    \cup UNION {{[data |-> FullData, blocks |-> bs] : bs \in Shapes(body)}
                : body \in ShapeBodies}

ScratchOffsets == {0, 64}

InitPre ==
    \E p \in PrePrograms :
        LET st == parse_data([alignment |-> 4, cursor |-> 0, allocs |-> <<>>], p.data)
        IN  /\ dsrc = p.data /\ dcalls = st.calls /\ dmap = st.labels
            /\ dPc = "returned"
            /\ alignment = 4 /\ current_offset = st.m.cursor
            /\ allocations = st.m.allocs /\ memResult = [status |-> "none"]
            /\ src = <<>> /\ blocks = p.blocks
            /\ functions = extract_functions(p.blocks)
            /\ emitted = <<>> /\ cfgPc = "parsed"
            /\ pcall = [fn |-> "none"] /\ trav = [pc |-> "idle"] /\ MachIdle
            /\ ExprIdle /\ ParseIdle

GetImplicitRegisters ==
    /\ cfgPc = "parsed"
    /\ \E b \in 1..Len(blocks) : \E k \in 1..Len(blocks[b].instructions) :
          LET instr == blocks[b].instructions[k]
          IN  pcall' = [fn |-> "get_implicit_registers", instr |-> instr,
                        ret |-> get_implicit_registers(instr)]
    /\ UNCHANGED <<memVars, exprVars, parseVars, cfgVars, dataVars, trav, mach>>

ResolveSymbols ==
    /\ cfgPc = "parsed"
    /\ blocks' = resolve_symbols(blocks, functions, symbol_offsets(dmap), data_label)
    /\ cfgPc' = "resolved"
    /\ pcall' = [fn |-> "resolve_symbols"]
    /\ UNCHANGED <<src, functions, emitted, memVars, exprVars, parseVars, dataVars, trav, mach>>

ExpandStackOps ==
    /\ cfgPc = "resolved"
    /\ \E scratch_offset \in ScratchOffsets :
          /\ blocks' = expand_stack_ops(blocks, functions, scratch_offset, data_label)
          /\ pcall' = [fn |-> "expand_stack_ops", scratch_offset |-> scratch_offset]
    /\ cfgPc' = "expanded"
    /\ UNCHANGED <<src, functions, emitted, memVars, exprVars, parseVars, dataVars, trav, mach>>

InjectContextSwitching ==
    /\ cfgPc = "expanded"
    /\ LET r == inject_context_switching(blocks, functions,
                    [alignment |-> alignment, cursor |-> current_offset,
                     allocs |-> allocations], data_label)
       IN  /\ blocks' = r.blocks
           /\ functions' = r.functions
           /\ allocations' = r.m.allocs
           /\ current_offset' = r.m.cursor
    /\ cfgPc' = "injected"
    /\ pcall' = [fn |-> "inject_context_switching"]
    /\ UNCHANGED <<src, emitted, alignment, memResult, exprVars, parseVars, dataVars, trav, mach>>

LinearizeFunctions ==
    /\ cfgPc = "injected"
    /\ emitted' = [f \in 1..Len(functions) |-> linearize_function(blocks, functions[f])]
    /\ cfgPc' = "linearized"
    /\ pcall' = [fn |-> "linearize_function"]
    /\ UNCHANGED <<src, blocks, functions, memVars, exprVars, parseVars, dataVars, trav, mach>>

\* preprocess_cfg itself, after parse_data and parse_text_cfg: it resolves the
\* symbols and then calls expand_stack_ops(functions) without the
\* scratch_offset and data_label the function requires, which raises
\* TypeError before any block is expanded.
preprocess_cfg ==
    /\ cfgPc = "parsed"
    /\ blocks' = resolve_symbols(blocks, functions, symbol_offsets(dmap), data_label)
    /\ cfgPc' = "TypeError"
    /\ pcall' = [fn |-> "preprocess_cfg"]
    /\ UNCHANGED <<src, functions, emitted, memVars, exprVars, parseVars, dataVars, trav, mach>>

NextPre ==
    \/ preprocess_cfg
    \/ GetImplicitRegisters
    \/ ResolveSymbols
    \/ ExpandStackOps
    \/ InjectContextSwitching
    \/ LinearizeFunctions
SpecPre == InitPre /\ [][NextPre]_vars

(***************************************************************************)
(* Claims on the preprocessing passes (SpecPre).                           *)
(***************************************************************************)
\* The data symbols: the labels of the data map with a recorded allocation,
\* each with the offset of its first allocation.
DataSymbols ==
    {dmap[k].label : k \in {j \in 1..Len(dmap) : dmap[j].allocations # <<>>}}
FirstOffset(s) ==
    dmap[CHOOSE k \in 1..Len(dmap) : dmap[k].label = s].allocations[1].offset

\* The sum over the symbols S of coefficient(s) * weight(s), the weight
\* being the first offset or 1.
RECURSIVE SumOfTerms(_, _, _)
SumOfTerms(e, S, byOffset) ==
    IF S = {} THEN 0
    ELSE LET s == CHOOSE x \in S : TRUE
         IN  Coef(e.t, s) * (IF byOffset THEN FirstOffset(s) ELSE 1)
             + SumOfTerms(e, S \ {s}, byOffset)

ResolvedAs(old, new) ==
    /\ \A s \in DataSymbols : s \notin DOMAIN new.t
    /\ new.c = old.c + SumOfTerms(old, DataSymbols, TRUE)
    /\ Coef(new.t, data_label)
          = Coef(old.t, data_label) + SumOfTerms(old, DataSymbols, FALSE)
    /\ \A s \in (DOMAIN old.t \cup DOMAIN new.t) \ (DataSymbols \cup {data_label}) :
          Coef(new.t, s) = Coef(old.t, s)
    /\ \A s \in DOMAIN new.t : new.t[s] # 0

OperandResolved(old, new) ==
    CASE old.kind = "imm" ->
            new.kind = "imm" /\ ResolvedAs(old.value, new.value)
      [] old.kind = "mem" ->
            /\ new.kind = "mem"
            /\ new.base = old.base /\ new.index = old.index /\ new.scale = old.scale
            /\ ResolvedAs(old.displacement, new.displacement)
      [] OTHER -> new = old

SameShape(old, new) ==
    /\ Len(new) = Len(old)
    /\ \A b \in 1..Len(old) :
          /\ new[b].name = old[b].name
          /\ new[b].successor = old[b].successor

ResolveStep == cfgPc = "parsed" /\ cfgPc' = "resolved"

StackTop == [kind |-> "mem", base |-> "%esp", index |-> "None", scale |-> 1,
             displacement |-> DefaultDisplacement]
BelowStackTop == [StackTop EXCEPT !.displacement = ExprInt(-4)]
EspOperand == [kind |-> "reg", reg |-> "%esp"]
Four == [kind |-> "imm", value |-> ExprInt(4)]
Mov(a, b) == [mnemonic |-> "movl", operands |-> <<a, b>>, line_number |-> 0]
Adjust(m) == [mnemonic |-> m, operands |-> <<Four, EspOperand>>, line_number |-> 0]
ScratchSlot(offset) ==
    [kind |-> "mem", base |-> "None", index |-> "None", scale |-> 1,
     displacement |-> [c |-> offset, t |-> [s \in {data_label} |-> 1]]]
\* The scratch register: one of %eax, %ebx that the operand does not use.
ScratchFor(op) ==
    [kind |-> "reg",
     reg |-> IF "%eax" \in {op.base, op.index} THEN "%ebx" ELSE "%eax"]

Rewritten(instr, offset) ==
    LET op == instr.operands[1] IN
    CASE instr.mnemonic = "pushl" /\ op = EspOperand ->
            <<Mov(EspOperand, BelowStackTop), Adjust("subl")>>
      [] instr.mnemonic = "pushl" /\ op # EspOperand /\ op.kind \in {"reg", "imm"} ->
            <<Adjust("subl"), Mov(op, StackTop)>>
      [] instr.mnemonic = "pushl" /\ op.kind = "mem" ->
            <<Mov(ScratchFor(op), ScratchSlot(offset)), Mov(op, ScratchFor(op)),
              Adjust("subl"), Mov(ScratchFor(op), StackTop),
              Mov(ScratchSlot(offset), ScratchFor(op))>>
      [] instr.mnemonic = "popl" /\ op = EspOperand ->
            <<Mov(StackTop, EspOperand)>>
      [] instr.mnemonic = "popl" /\ op # EspOperand /\ op.kind = "reg" ->
            <<Mov(StackTop, op), Adjust("addl")>>
      [] instr.mnemonic = "popl" /\ op.kind = "mem" ->
            <<Mov(ScratchFor(op), ScratchSlot(offset)), Mov(StackTop, ScratchFor(op)),
              Adjust("addl"), Mov(ScratchFor(op), op),
              Mov(ScratchSlot(offset), ScratchFor(op))>>
      [] OTHER -> <<instr>>

RECURSIVE RewrittenFrom(_, _, _)
RewrittenFrom(instructions, k, offset) ==
    IF k > Len(instructions) THEN <<>>
    ELSE Rewritten(instructions[k], offset)
         \o RewrittenFrom(instructions, k + 1, offset)

ExpandStep == cfgPc = "resolved" /\ cfgPc' = "expanded"

\* C17: expand_stack_ops rewrites 'pushl %esp' to [movl %esp,-4(%esp);
\* subl $4,%esp], 'pushl src' of another register or an immediate to
\* [subl $4,%esp; movl src,(%esp)], 'popl %esp' to [movl (%esp),%esp],
\* 'popl reg' to [movl (%esp),reg; addl $4,%esp] and a push or pop of a
\* memory operand to save-scratch, move, adjust %esp, move, restore-scratch;
\* every instruction with another mnemonic stays as it is, where it was.
C17_StackOpsExpanded ==
    [][ExpandStep =>
        /\ SameShape(blocks, blocks')
        /\ \A b \in 1..Len(blocks) :
              blocks'[b].instructions
                 = RewrittenFrom(blocks[b].instructions, 1, pcall'.scratch_offset)]_vars

\* A block 'incl %ecx; popl 8(%ebx,%eax,2); ret' has become seven
\* instructions, with %ebx as the scratch register; and a 'pushl %esp' has
\* been rewritten in another program.
C17_Witness ==
    /\ cfgPc = "expanded"
    /\ LET is == blocks[1].instructions
       IN  /\ Len(is) = 7
           /\ is[1].mnemonic = "incl" /\ is[1].line_number # 0
           /\ is[7].mnemonic = "ret" /\ is[7].line_number # 0
           /\ is[2] = Mov(ScratchFor(is[5].operands[2]), ScratchSlot(64))
           /\ is[2].operands[1].reg = "%ebx"
           /\ is[4] = Adjust("addl")
           /\ is[5].operands[2].index = "%eax"
C17_WitnessPushEsp ==
    /\ cfgPc = "expanded"
    /\ \E b \in 1..Len(blocks) :
          /\ Len(blocks[b].instructions) >= 2
          /\ blocks[b].instructions[1] = Mov(EspOperand, BelowStackTop)
          /\ blocks[b].instructions[2] = Adjust("subl")

\* The slot of a tracked register: the offset of the last allocation that
\* carries the register's name.
RegisterSlot(allocs, r) ==
    allocs[CHOOSE k \in 1..Len(allocs) :
              /\ allocs[k].name = RegName(r)
              /\ \A j \in (k + 1)..Len(allocs) : allocs[j].name # RegName(r)].offset
SlotOperand(allocs, r) ==
    [kind |-> "mem", base |-> "None", index |-> "None", scale |-> 1,
     displacement |-> [c |-> RegisterSlot(allocs, r), t |-> [s \in {data_label} |-> 1]]]
RegOperandOf(r) == [kind |-> "reg", reg |-> r]

\* The tracked registers a block uses: register operands and the base and
\* index of memory operands, partial registers counted as their 32-bit
\* parent, and the implicit registers of each instruction.
UsedBy(instructions) ==
    {r \in Tracked :
        \E k \in 1..Len(instructions) :
           \/ r \in get_implicit_registers(instructions[k])
           \/ \E j \in 1..Len(instructions[k].operands) :
                 LET op == instructions[k].operands[j]
                 IN  \/ op.kind = "reg" /\ get_32bit_counterpart(op.reg) = r
                     \/ /\ op.kind = "mem"
                        /\ \/ op.base # "None" /\ get_32bit_counterpart(op.base) = r
                           \/ op.index # "None" /\ get_32bit_counterpart(op.index) = r}

OrdinalOrder ==
    <<"%eax", "%ebx", "%ecx", "%edx", "%esi", "%edi", "%ebp", "%esp">>
SpellingOrder ==
    <<"%eax", "%ebp", "%ebx", "%ecx", "%edi", "%edx", "%esi", "%esp">>

\* The block `new` is the block `old` between one load per used register and
\* one save per used register, both in the given order.
Instrumented(old, new, allocs, order) ==
    LET used == SelectSeq(order, LAMBDA r : r \in UsedBy(old.instructions))
        n    == Len(used)
    IN  IF n = 0 THEN new.instructions = old.instructions
        ELSE /\ Len(new.instructions) = Len(old.instructions) + 2 * n
             /\ \A i \in 1..n :
                   /\ new.instructions[i]
                         = Mov(SlotOperand(allocs, used[i]), RegOperandOf(used[i]))
                   /\ new.instructions[n + Len(old.instructions) + i]
                         = Mov(RegOperandOf(used[i]), SlotOperand(allocs, used[i]))
             /\ SubSeq(new.instructions, n + 1, n + Len(old.instructions))
                   = old.instructions

InjectStep == cfgPc = "expanded" /\ cfgPc' = "injected"

C18_WitnessUnchanged ==
    /\ cfgPc = "injected"
    /\ \E b \in 1..Len(blocks) :
          /\ blocks[b].instructions # <<>>
          /\ \A k \in 1..Len(blocks[b].instructions) :
                blocks[b].instructions[k].line_number # 0
C18_WitnessImplicit ==
    /\ cfgPc = "injected"
    /\ LET is == blocks[1].instructions
       IN  /\ Len(is) = 5 /\ is[3].mnemonic = "mull" /\ is[3].operands = <<>>
           /\ is[1].operands[2] = RegOperandOf("%eax")
           /\ is[2].operands[2] = RegOperandOf("%edx")

\* The table of C19, read off the lower-case mnemonic and the number of
\* operands; cbw and cwde have their own row.
MnemonicStarts(instr, key) == StartsWith(Lower(Chars(instr.mnemonic)), Chars(key))
ImplicitByTable(instr) ==
    IF MnemonicStarts(instr, "cbw") \/ MnemonicStarts(instr, "cwde")
    THEN {"%eax"}
    ELSE IF \/ \E key \in {"mul", "div", "idiv", "cdq", "cwd"} :
                  MnemonicStarts(instr, key)
            \/ MnemonicStarts(instr, "imul") /\ Len(instr.operands) = 1
    THEN {"%eax", "%edx"}
    ELSE {}

\* C19: get_implicit_registers returns exactly {EAX, EDX} for mnemonics
\* starting with mul, div, idiv, cdq or cwd and for imul with exactly one
\* operand, exactly {EAX} for cbw and cwde, and the empty set for every
\* other instruction (imul with two or three operands included).
C19_ImplicitRegisters ==
    pcall.fn = "get_implicit_registers"
        => pcall.ret = ImplicitByTable(pcall.instr)

\* What does hold: the table is right for every mnemonic that does not start
\* with cwde, and for those the call returns {EAX, EDX}.
C19_ImplicitRegistersButCwde ==
    pcall.fn = "get_implicit_registers"
        => IF MnemonicStarts(pcall.instr, "cwde")
           THEN pcall.ret = {"%eax", "%edx"}
           ELSE pcall.ret = ImplicitByTable(pcall.instr)

\* The prologue C20 names: `movl %reg, data_label+slot(reg)` for the eight
\* tracked registers in the order EAX, EBX, ECX, EDX, ESI, EDI, EBP, ESP.
SavesOfAll(allocs) ==
    [k \in 1..8 |->
        Mov(RegOperandOf(OrdinalOrder[k]), SlotOperand(allocs, OrdinalOrder[k]))]

\* C20: inject_context_switching gives every function a prologue of exactly
\* eight instructions `movl %reg, data_label+slot(reg)`, one per tracked
\* register in the order EAX, EBX, ECX, EDX, ESI, EDI, EBP, ESP, each to that
\* register's own slot, and the linearizer emits this prologue between the
\* function label and the label of the entry block.
C20_PrologueEmitted ==
    /\ cfgPc \in {"injected", "linearized"} =>
          /\ \A r1, r2 \in Tracked :
                r1 # r2 => RegisterSlot(allocations, r1) # RegisterSlot(allocations, r2)
          /\ \A f \in 1..Len(functions) :
                functions[f].prologue = SavesOfAll(allocations)
    /\ cfgPc = "linearized" =>
          /\ Len(emitted) = Len(functions)
          /\ \A f \in 1..Len(functions) :
                LET stream == emitted[f].instructions
                IN  /\ Len(stream) >= 10
                    /\ stream[1] = Label(functions[f].name)
                    /\ SubSeq(stream, 2, 9) = SavesOfAll(allocations)
                    /\ stream[10] = Label(blocks[functions[f].entry_block].name)
                    /\ \A k \in 11..Len(stream) :
                          stream[k] # Label(functions[f].name)

\* Two functions have been linearised after a data section that ends
\* unaligned: the slots start at offset 8, and the stream of g is its label,
\* the eight saves, then the label of its entry block.
C20_Witness ==
    /\ cfgPc = "linearized"
    /\ Len(functions) = 2
    /\ RegisterSlot(allocations, "%eax") = 8
    /\ RegisterSlot(allocations, "%esp") = 36
    /\ emitted[2].instructions[1] = Label("g")
    /\ emitted[2].instructions[9]
          = Mov(RegOperandOf("%esp"), SlotOperand(allocations, "%esp"))
    /\ emitted[2].instructions[10] = Label("g__entry_block")

(***************************************************************************)
(* Properties of extract_functions and of the traversals.                  *)
(***************************************************************************)
\* The blocks a block's successor names.
SuccessorsOf(bs, b) ==
    CASE bs[b].successor.kind = "direct" -> {bs[b].successor.block}
      [] bs[b].successor.kind = "cond" ->
            {bs[b].successor.true_block, bs[b].successor.false_block}
      [] OTHER -> {}
\* The blocks reachable through successor edges from the blocks of `seen`.
RECURSIVE ReachClosure(_, _)
ReachClosure(bs, seen) ==
    LET more == seen \cup UNION {SuccessorsOf(bs, b) : b \in seen}
    IN  IF more = seen THEN seen ELSE ReachClosure(bs, more)
ReachableFrom(bs, b) == ReachClosure(bs, {b})
FunctionsReaching(b) ==
    {f \in 1..Len(functions) : b \in ReachableFrom(blocks, functions[f].entry_block)}
FirstOf(S) == CHOOSE b \in S : \A c \in S : b <= c

\* C21: extract_functions partitions the blocks into functions: every block
\* is reachable through successor edges from the entry block of exactly one
\* returned Function, and each Function's entry is the first block in source
\* order of the set reachable from it and gives the Function its name.
C21_FunctionsPartition ==
    Parsed =>
        /\ \A b \in 1..Len(blocks) : Cardinality(FunctionsReaching(b)) = 1
        /\ \A f \in 1..Len(functions) :
              /\ functions[f].entry_block =
                    FirstOf(ReachableFrom(blocks, functions[f].entry_block))
              /\ functions[f].name = blocks[functions[f].entry_block].name

\* What does hold: every block is reachable from the entry of at least one
\* Function, every Function is named after its entry, and the entries are
\* the blocks that no earlier Function reaches.
C21_EveryBlockCovered ==
    Parsed =>
        /\ \A b \in 1..Len(blocks) : FunctionsReaching(b) # {}
        /\ \A f \in 1..Len(functions) :
              /\ functions[f].name = blocks[functions[f].entry_block].name
              /\ \A g \in 1..(f - 1) :
                    /\ functions[g].entry_block < functions[f].entry_block
                    /\ functions[f].entry_block
                          \notin ReachableFrom(blocks, functions[g].entry_block)
(***************************************************************************)
(* textparser.models: MemoryOperand.__str__, on the operands the parser    *)
(* and the stack expander build.  A text is a sequence of pieces, as in    *)
(* Expression.__str__.                                                     *)
(***************************************************************************)
\* self.displacement == 0: Expression defines no __eq__, so the comparison
\* of the Expression object with the int 0 is the default one.
DisplacementEqualsZero(op) == PyEq(Ref(1, op.displacement), IntVal(0))

MutDisplacementEqualsZero(op) == op.displacement = ExprInt(0)

HasRegister(op) == op.base # NoReg \/ op.index # NoReg

MemoryOperandStr(op) ==
    LET res == IF DisplacementEqualsZero(op) /\ HasRegister(op)
               THEN <<>>
               ELSE ExprStr(op.displacement)
    IN  IF HasRegister(op)
        THEN res \o <<"(">>
             \o (IF op.base # NoReg THEN <<op.base>> ELSE <<>>)
             \o (IF op.index # NoReg
                 THEN <<",", op.index>>
                      \o (IF op.scale # 1 THEN <<",", ToString(op.scale)>> ELSE <<>>)
                 ELSE <<>>)
             \o <<")">>
        ELSE res

\* What parse_operand returns for `disp(base,index,scale)`: the displacement
\* is Expression(0) when the text has none.
ParsedMemoryOperands ==
    {MemoryOperand(b, i, s, d) :
        b \in {NoReg, "%eax", "%esp"}, i \in {NoReg, "%esi"}, s \in {1, 4},
        d \in {ExprInt(0), ExprInt(4), ExprInt(-4), ExprSym("x"),
               [c |-> 4, t |-> [y \in {"x"} |-> 2]]}}
StrBodies ==
    {<<Instr("movl", <<ImmediateOperand(ExprInt(1)), op>>)>> :
        op \in {m \in ParsedMemoryOperands : m.index # NoReg \/ m.scale = 1}}
    \cup {<<Instr(mn, <<op>>)>> :
            mn \in {"pushl", "popl"},
            op \in {RegisterOperand(r) : r \in {"%eax", "%ebx", "%esp"}}
                   \cup {m \in ParsedMemoryOperands : m.scale = 1}}
    \cup {<<Instr("pushl", <<ImmediateOperand(ExprInt(4))>>)>>}

InitStr ==
    /\ \E body \in StrBodies : blocks = <<TypedBlock("f", body, 1, NoSuccessor)>>
    /\ functions = <<Function("f", 1)>>
    /\ src = <<>> /\ emitted = <<>> /\ cfgPc = "resolved"
    /\ pcall = [fn |-> "none"] /\ trav = [pc |-> "idle"] /\ MachIdle
    /\ MemIdle /\ ExprIdle /\ ParseIdle /\ DataIdle

\* str() of a memory operand of the CFG, as generate_text_section asks for
\* it when it prints the instruction.
StrMemoryOperand ==
    /\ cfgPc \in {"resolved", "expanded"}
    /\ \E b \in 1..Len(blocks) : \E k \in 1..Len(blocks[b].instructions) :
          \E j \in 1..Len(blocks[b].instructions[k].operands) :
             LET op == blocks[b].instructions[k].operands[j]
             IN  /\ op.kind = "mem"
                 /\ pcall' = [fn |-> "MemoryOperand.__str__", op |-> op,
                              parsed |-> (cfgPc = "resolved"),
                              ret |-> MemoryOperandStr(op)]
    /\ UNCHANGED <<memVars, exprVars, parseVars, cfgVars, dataVars, trav, mach>>

NextStr == ExpandStackOps \/ StrMemoryOperand
SpecStr == InitStr /\ [][NextStr]_vars

\* The text after the displacement: `(base[,index[,scale]])`, scale 1 left
\* out, and nothing when neither base nor index is set.
RegisterPart(op) ==
    IF op.base = NoReg /\ op.index = NoReg THEN <<>>
    ELSE <<"(">> \o (IF op.base = NoReg THEN <<>> ELSE <<op.base>>)
         \o (IF op.index = NoReg THEN <<>>
             ELSE IF op.scale = 1 THEN <<",", op.index>>
             ELSE <<",", op.index, ",", ToString(op.scale)>>)
         \o <<")">>
Printed == pcall.fn = "MemoryOperand.__str__"

\* C22: when a MemoryOperand has a displacement equal to the scalar 0 and at
\* least one of base and index set, its string form omits the displacement
\* (`(%esp)`); otherwise the displacement expression is printed; the memory
\* operands the stack expander builds as MemoryOperand(base=ESP), whose
\* displacement is the default one, print as `(%esp)` too.
C22_ZeroDisplacementOmitted ==
    Printed =>
        LET op == pcall.op
            zero == op.displacement \in {ExprInt(0), DefaultDisplacement}
        IN  pcall.ret =
                (IF zero /\ HasRegister(op) THEN <<>> ELSE ExprStr(op.displacement))
                \o RegisterPart(op)

\* What does hold: the displacement is always printed, a zero one as `0`.
C22_DisplacementAlwaysPrinted ==
    Printed => pcall.ret = ExprStr(pcall.op.displacement) \o RegisterPart(pcall.op)
(***************************************************************************)
(* Properties of build_blocks and link_blocks, read off the text section.  *)
(***************************************************************************)
\* The terminators, as the specification lists them for the model's
\* mnemonics: the jumps, the b-prefixed mnemonics and the returns.
TerminatorAt(j) ==
    /\ j \in 1..Len(src) /\ ~IsLabel(src[j])
    /\ src[j].mnemonic \in ConditionalMnemonics
          \cup {"jmp", "jp", "b", "bswap", "ret", "iret", "syscall"}
\* Element j opens a block: a label, or an instruction with no open block
\* (the first element, or the element after a terminator).
OpensBlock(j) ==
    /\ j \in 1..Len(src)
    /\ \/ IsLabel(src[j])
       \/ j = 1
       \/ TerminatorAt(j - 1)
\* The element at which the k-th block opens, and the one where it ends.
StartOf(k) ==
    CHOOSE j \in 1..Len(src) :
        OpensBlock(j) /\ Cardinality({i \in 1..j : OpensBlock(i)}) = k
EndOf(k) ==
    LET later == {j \in (StartOf(k) + 1)..Len(src) : OpensBlock(j)}
    IN  IF later = {} THEN Len(src)
        ELSE (CHOOSE j \in later : \A i \in later : j <= i) - 1
\* The instructions the text section holds for the k-th block.
SourceBody(k) ==
    LET first == IF IsLabel(src[StartOf(k)]) THEN StartOf(k) + 1 ELSE StartOf(k)
    IN  [i \in 1..(EndOf(k) - first + 1) |-> src[first + i - 1]]
FallsThrough(k) == SourceBody(k) = <<>> \/ ~TerminatorAt(EndOf(k))

\* C23: in build_blocks a label always opens a new block (two adjacent
\* labels give two distinct blocks, the first one empty), an instruction
\* with no open block opens an anonymous block loc_<line>, and a terminator
\* closes the current block; in link_blocks a block whose last instruction
\* is not a terminator, or that has no instructions, gets
\* DirectSuccessor(next physical block) when a next block exists and
\* successor None otherwise.
C23_BlocksAndFallThrough ==
    Parsed =>
        /\ Len(blocks) = Cardinality({j \in 1..Len(src) : OpensBlock(j)})
        /\ \A k \in 1..Len(blocks) :
              /\ blocks[k].name = NameAt(StartOf(k))
              /\ \/ blocks[k].instructions = SourceBody(k)
                 \/ /\ TerminatorAt(EndOf(k))
                    /\ blocks[k].instructions = Pop(SourceBody(k))
              /\ \A i \in 1..(Len(SourceBody(k)) - 1) :
                    ~TerminatorAt(StartOf(k) + i - 1
                                  + (IF IsLabel(src[StartOf(k)]) THEN 1 ELSE 0))
              /\ FallsThrough(k) =>
                    /\ blocks[k].instructions = SourceBody(k)
                    /\ blocks[k].successor =
                          IF k < Len(blocks) THEN DirectSuccessor(k + 1)
                          ELSE NoSuccessor

\* A terminator, then an instruction with no open block, then two adjacent
\* labels: the anonymous block falls through to the first label's block,
\* which is empty and falls through to the second one, the last block, whose
\* successor is None.
C23_Witness ==
    /\ Parsed /\ Len(src) = 4 /\ Len(blocks) = 4
    /\ TerminatorAt(1) /\ ~IsLabel(src[2]) /\ ~TerminatorAt(2) /\ IsLabel(src[3]) /\ IsLabel(src[4])
    /\ blocks[2].name = "loc_2" /\ blocks[2].successor = DirectSuccessor(3)
    /\ blocks[3].instructions = <<>> /\ blocks[3].successor = DirectSuccessor(4)
    /\ blocks[3].name # blocks[4].name
    /\ blocks[4].instructions = <<>> /\ blocks[4].successor = NoSuccessor
(***************************************************************************)
(* The traversals of the CFG, one loop turn (or one call step) at a time:  *)
(* extract_functions, utils.iter_blocks and, for every function,           *)
(* discover_blocks under linearize_function.  The CFG is any block list    *)
(* link_blocks can leave: a conditional successor has the next physical    *)
(* block as one of its branches, and the last block has none.              *)
(***************************************************************************)
MaxBlocks == 3   \* blocks of a generated CFG

BlockName(i) == "B" \o ToString(i)
LinkedSuccessors(i, n) ==
    {NoSuccessor} \cup {DirectSuccessor(t) : t \in 1..n}
    \cup (IF i < n
          THEN {ConditionalSuccessor(t, i + 1, "je") : t \in 1..n}
               \cup {ConditionalSuccessor(i + 1, t, "je") : t \in 1..n}
          ELSE {})
TravGraphs ==
    UNION {{[i \in 1..n |-> [name |-> BlockName(i), instructions |-> <<>>,
                             successor |-> s[i]]] :
              s \in {g \in [1..n -> UNION {LinkedSuccessors(i, n) : i \in 1..n}] :
                        \A i \in 1..n : g[i] \in LinkedSuccessors(i, n)}}
           : n \in 1..MaxBlocks}

InitTrav ==
    /\ blocks \in TravGraphs
    /\ functions = <<>> /\ emitted = <<>> /\ src = <<>> /\ cfgPc = "linked"
    /\ trav = [pc |-> "extract", i |-> 1, inner |-> FALSE, work |-> <<>>,
               visited |-> {}, yielded |-> <<>>, order |-> <<>>]
    /\ pcall = [fn |-> "idle"] /\ MachIdle
    /\ MemIdle /\ ExprIdle /\ ParseIdle /\ DataIdle

\* extract_functions: one turn of `for block in blocks`, up to the queue loop.
ExtractOuter ==
    /\ trav.pc = "extract" /\ ~trav.inner
    /\ IF trav.i > Len(blocks)
       THEN /\ trav' = [trav EXCEPT !.pc = "iter", !.i = 1, !.visited = {}]
            /\ UNCHANGED functions
       ELSE IF trav.i \in trav.visited
       THEN /\ trav' = [trav EXCEPT !.i = @ + 1]
            /\ UNCHANGED functions
       ELSE /\ functions' = Append(functions, Function(blocks[trav.i].name, trav.i))
            /\ trav' = [trav EXCEPT !.work = <<trav.i>>, !.inner = TRUE]
    /\ UNCHANGED <<src, blocks, emitted, cfgPc, pcall, mach,
                   memVars, exprVars, parseVars, dataVars>>

\* extract_functions: one turn of `while queue`.  The test `curr.name in
\* visited` never succeeds, so the dequeued block is always processed.
ExtractInner ==
    /\ trav.pc = "extract" /\ trav.inner
    /\ LET curr == Head(trav.work)
           v1   == trav.visited \cup {curr}
           s    == blocks[curr].successor
           more == CASE s.kind = "direct" ->
                          IF s.block \notin v1 THEN <<s.block>> ELSE <<>>
                    [] s.kind = "cond" ->
                          (IF s.true_block \notin v1 THEN <<s.true_block>> ELSE <<>>)
                          \o (IF s.false_block \notin v1 THEN <<s.false_block>> ELSE <<>>)
                    [] OTHER -> <<>>
           queue == Tail(trav.work) \o more
       IN  trav' = IF queue = <<>>
                   THEN [trav EXCEPT !.work = queue, !.visited = v1,
                                     !.inner = FALSE, !.i = @ + 1]
                   ELSE [trav EXCEPT !.work = queue, !.visited = v1]
    /\ UNCHANGED <<cfgVars, pcall, mach, memVars, exprVars, parseVars, dataVars>>

\* iter_blocks: one turn of `for func in functions`, up to the stack loop.
IterOuter ==
    /\ trav.pc = "iter" /\ ~trav.inner
    /\ trav' = IF trav.i > Len(functions)
               THEN [trav EXCEPT !.pc = "discover", !.i = 1, !.visited = {}]
               ELSE [trav EXCEPT !.work = <<functions[trav.i].entry_block>>,
                                 !.inner = TRUE]
    /\ UNCHANGED <<cfgVars, pcall, mach, memVars, exprVars, parseVars, dataVars>>

\* iter_blocks: one turn of `while stack`.
IterInner ==
    /\ trav.pc = "iter" /\ trav.inner
    /\ LET block == trav.work[Len(trav.work)]
           rest  == SubSeq(trav.work, 1, Len(trav.work) - 1)
           s     == blocks[block].successor
           pushed == CASE s.kind = "direct" -> <<s.block>>
                      [] s.kind = "cond"   -> <<s.true_block, s.false_block>>
                      [] OTHER             -> <<>>
           seen  == block \in trav.visited
           stack == IF seen THEN rest ELSE rest \o pushed
           t1    == IF seen THEN [trav EXCEPT !.work = stack]
                    ELSE [trav EXCEPT !.work = stack,
                                      !.visited = @ \cup {block},
                                      !.yielded = Append(@, block)]
       IN  trav' = IF stack = <<>> THEN [t1 EXCEPT !.inner = FALSE, !.i = @ + 1]
                   ELSE t1
    /\ UNCHANGED <<cfgVars, pcall, mach, memVars, exprVars, parseVars, dataVars>>

\* linearize_function, for the function at trav.i: the call of
\* discover_blocks on its entry block, with a fresh visitors set.
LinearizeStart ==
    /\ trav.pc = "discover" /\ ~trav.inner
    /\ trav' = IF trav.i > Len(functions)
               THEN [trav EXCEPT !.pc = "done"]
               ELSE [trav EXCEPT
                        !.work = <<[block |-> functions[trav.i].entry_block,
                                    at |-> "enter"]>>,
                        !.visited = {}, !.order = <<>>, !.inner = TRUE]
    /\ UNCHANGED <<cfgVars, pcall, mach, memVars, exprVars, parseVars, dataVars>>

\* discover_blocks: one step of the innermost call.  A frame is a call of
\* discover_blocks on `block`: entered, waiting for the call on the true
\* block to finish ("second"), or waiting for its last call ("exit").
MutDiscoverTurn(t, bs) ==
    LET frame == t.work[Len(t.work)]
        rest  == SubSeq(t.work, 1, Len(t.work) - 1)
        b     == frame.block
        s     == bs[b].successor
        call(c) == [block |-> c, at |-> "enter"]
    IN  CASE frame.at = "enter" /\ b \in t.visited -> [t EXCEPT !.work = rest]
          [] frame.at = "enter" /\ b \notin t.visited ->
                [t EXCEPT !.visited = @ \cup {b},
                          !.order = Append(@, b),
                          !.work =
                             CASE s.kind = "direct" ->
                                     rest \o <<[frame EXCEPT !.at = "exit"], call(s.block)>>
                               [] s.kind = "cond" ->
                                     rest \o <<[frame EXCEPT !.at = "second"],
                                               call(s.false_block)>>
                               [] OTHER -> rest]
          [] frame.at = "second" ->
                [t EXCEPT !.work = rest \o <<[frame EXCEPT !.at = "exit"],
                                             call(s.true_block)>>]
          [] OTHER -> [t EXCEPT !.work = rest]

DiscoverTurn(t, bs) ==
    LET frame == t.work[Len(t.work)]
        rest  == SubSeq(t.work, 1, Len(t.work) - 1)
        b     == frame.block
        s     == bs[b].successor
        call(c) == [block |-> c, at |-> "enter"]
    IN  CASE frame.at = "enter" /\ b \in t.visited -> [t EXCEPT !.work = rest]
          [] frame.at = "enter" /\ b \notin t.visited ->
                [t EXCEPT !.visited = @ \cup {b},
                          !.order = Append(@, b),
                          !.work =
                             CASE s.kind = "direct" ->
                                     rest \o <<[frame EXCEPT !.at = "exit"], call(s.block)>>
                               [] s.kind = "cond" ->
                                     rest \o <<[frame EXCEPT !.at = "second"],
                                               call(s.true_block)>>
                               [] OTHER -> rest]
          [] frame.at = "second" ->
                [t EXCEPT !.work = rest \o <<[frame EXCEPT !.at = "exit"],
                                             call(s.false_block)>>]
          [] OTHER -> [t EXCEPT !.work = rest]

DiscoverStep ==
    /\ trav.pc = "discover" /\ trav.inner /\ trav.work # <<>>
    /\ trav' = DiscoverTurn(trav, blocks)
    /\ UNCHANGED <<cfgVars, pcall, mach, memVars, exprVars, parseVars, dataVars>>

\* linearize_function, once discover_blocks is exhausted: the stream of the
\* function, from the blocks in the order they were yielded.
LinearizeEnd ==
    /\ trav.pc = "discover" /\ trav.inner /\ trav.work = <<>>
    /\ emitted' = Append(emitted,
          [name |-> functions[trav.i].name,
           instructions |-> <<Label(functions[trav.i].name)>>
                            \o PrologueOf(functions[trav.i])
                            \o Concat(blocks, trav.order, 1)])
    /\ trav' = [trav EXCEPT !.inner = FALSE, !.i = @ + 1]
    /\ UNCHANGED <<src, blocks, functions, cfgPc, pcall, mach,
                   memVars, exprVars, parseVars, dataVars>>

NextTrav ==
    \/ ExtractOuter \/ ExtractInner
    \/ IterOuter \/ IterInner
    \/ LinearizeStart \/ DiscoverStep \/ LinearizeEnd
\* The interpreter runs the program to its end: every enabled turn is taken.
SpecTrav == InitTrav /\ [][NextTrav]_vars /\ WF_vars(NextTrav)

\* The turn-by-turn traversals give what the functions give as a whole.
TraversalsAgree ==
    trav.pc = "done" =>
        /\ functions = extract_functions(blocks)
        /\ trav.yielded = iter_blocks(blocks, functions)
        /\ emitted = [f \in 1..Len(functions) |->
                         linearize_function(blocks, functions[f])]

\* The blocks whose labels a linearised stream holds after the function's
\* own label, in the order of the stream.
BlockOfName(n) == CHOOSE b \in 1..Len(blocks) : blocks[b].name = n
LabelsOf(s) == SelectSeq(Tail(s), IsLabel)
EmittedOrder(f) ==
    [k \in 1..Len(LabelsOf(emitted[f].instructions)) |->
        BlockOfName(LabelsOf(emitted[f].instructions)[k].label)]
Before(order, k) == {order[j] : j \in 1..(k - 1)}
\* Depth-first pre-order from `entry`, the true block before the false one:
\* each block after the first is an unvisited successor of the latest block
\* that still has one, and the false block is taken only once the true block
\* has been visited.
PreOrder(order, entry) ==
    /\ order # <<>> /\ order[1] = entry
    /\ \A k \in 2..Len(order) :
          \E j \in 1..(k - 1) :
             LET s == blocks[order[j]].successor IN
             /\ order[k] \in SuccessorsOf(blocks, order[j])
             /\ (s.kind = "cond" /\ s.true_block # order[k])
                    => s.true_block \in Before(order, k)
             /\ \A h \in (j + 1)..(k - 1) :
                    SuccessorsOf(blocks, order[h]) \subseteq Before(order, k)
EmittedOncePreOrder(f) ==
    LET order == EmittedOrder(f)
        entry == functions[f].entry_block
    IN  /\ \A j, k \in 1..Len(order) : j # k => order[j] # order[k]
        /\ {order[k] : k \in 1..Len(order)} = ReachableFrom(blocks, entry)
        /\ PreOrder(order, entry)

\* C24: for any CFG, including CFGs with loops, self-loops and conditionals
\* whose two branches are the same block, the traversals (extract_functions,
\* iter_blocks, discover_blocks) terminate, and linearize_function emits
\* every block reachable from the entry exactly once, in depth-first
\* pre-order that visits a conditional's true block before its false block.
C24_TerminateAndEmitOnce ==
    /\ <>(trav.pc = "done")
    /\ [](\A f \in 1..Len(emitted) : EmittedOncePreOrder(f))

\* All traversals are over, on a CFG with a self-loop, a loop through two
\* blocks and a conditional whose two branches are the same block, and the
\* function's stream holds the three blocks.
C24_Witness ==
    /\ trav.pc = "done" /\ Len(blocks) = 3
    /\ blocks[1].successor = ConditionalSuccessor(2, 2, "je")
    /\ blocks[2].successor = ConditionalSuccessor(2, 3, "je")
    /\ blocks[3].successor = DirectSuccessor(1)
    /\ Len(emitted) = 1 /\ EmittedOrder(1) = <<1, 2, 3>>

(***************************************************************************)
(* The register slots and the user data (SpecPre).                         *)
(***************************************************************************)
EndOfData(allocs) ==
    IF allocs = <<>> THEN 0
    ELSE allocs[Len(allocs)].offset + allocs[Len(allocs)].size
\* `after` is `before` followed by the eight register slots (and the padding
\* that aligns them): 4 bytes each, aligned, in the order EAX..ESP at
\* increasing offsets, none below the end of the data allocated before.
SlotsAfterUserData(before, after, align) ==
    /\ Len(after) >= Len(before) + 8
    /\ SubSeq(after, 1, Len(before)) = before
    /\ \A k \in 1..8 :
          LET slot == after[Len(after) - 8 + k] IN
          /\ slot.name = RegName(OrdinalOrder[k])
          /\ slot.size = 4
          /\ slot.offset % align = 0
          /\ slot.offset >= EndOfData(before)
          /\ k > 1 => after[Len(after) - 9 + k].offset < slot.offset
PreprocessStep == cfgPc = "parsed" /\ pcall'.fn = "preprocess_cfg"

\* C25: in preprocess_cfg the eight register slots are allocated only after
\* all user data has been parsed and allocated: each slot is 4 bytes,
\* aligned, the slots have pairwise distinct offsets in the order EAX..ESP,
\* every slot offset is at or beyond the end of the last user-data
\* allocation, and the offsets already assigned to user data symbols are not
\* changed by the slot allocation.
C25_SlotsAfterUserData ==
    [][PreprocessStep =>
        /\ SlotsAfterUserData(allocations, allocations', alignment)
        /\ dmap' = dmap]_vars

\* What does hold: the same for inject_context_switching, when the passes
\* are called one by one in the order preprocess_cfg names them, each with
\* the arguments it requires.
C25_SlotsAfterUserDataByPass ==
    [][InjectStep =>
        /\ SlotsAfterUserData(allocations, allocations', alignment)
        /\ dmap' = dmap]_vars

(***************************************************************************)
(* The scratch register of an expanded push or pop of a memory operand.    *)
(***************************************************************************)
\* Instruction k of the block opens the expansion of a push or pop of a
\* memory operand: it saves the scratch register to the scratch slot.
ScratchSaveAt(b, k) ==
    LET i == blocks[b].instructions[k] IN
    /\ k + 4 <= Len(blocks[b].instructions)
    /\ i.mnemonic = "movl" /\ i.line_number = 0
    /\ i.operands[1].kind = "reg"
    /\ i.operands[2] = ScratchSlot(pcall.scratch_offset)
\* The memory operand of that push (read by the second instruction) or pop
\* (written by the fourth one).
StackOperandAt(b, k) ==
    LET is == blocks[b].instructions
    IN  IF is[k + 2].mnemonic = "subl" THEN is[k + 1].operands[1]
        ELSE is[k + 3].operands[2]

\* C27: for every memory operand of a pushl/popl (any combination of base
\* and index registers), the scratch register chosen by get_safe_scratch is
\* neither the operand's base nor its index.
C27_ScratchNotInOperand ==
    cfgPc = "expanded" =>
        \A b \in 1..Len(blocks) : \A k \in 1..Len(blocks[b].instructions) :
           ScratchSaveAt(b, k) =>
              blocks[b].instructions[k].operands[1].reg
                 \notin {StackOperandAt(b, k).base, StackOperandAt(b, k).index}

\* What does hold: the scratch register is one the operand does not use,
\* unless the operand uses both %eax and %ebx.
C27_ScratchNotInOperandUnlessBoth ==
    cfgPc = "expanded" =>
        \A b \in 1..Len(blocks) : \A k \in 1..Len(blocks[b].instructions) :
           ScratchSaveAt(b, k) =>
              LET op == StackOperandAt(b, k) IN
              \/ {"%eax", "%ebx"} \subseteq {op.base, op.index}
              \/ blocks[b].instructions[k].operands[1].reg \notin {op.base, op.index}

(***************************************************************************)
(* Blocks that end the flow, after the whole rewriting.                    *)
(***************************************************************************)
\* A save of a tracked register to its slot, as instrument_block builds it.
IsSave(i, allocs) ==
    /\ i.mnemonic = "movl" /\ Len(i.operands) = 2
    /\ i.operands[1].kind = "reg" /\ i.operands[1].reg \in Tracked
    /\ i.operands[2] = SlotOperand(allocs, i.operands[1].reg)
\* A block as build_blocks and link_blocks leave it when it ends the flow:
\* its last instruction is a return, it holds no other terminator, and it
\* has no successor.
EndsTheFlow(block) ==
    LET is == block.instructions IN
    /\ block.successor = NoSuccessor
    /\ Len(is) > 0 /\ is_return(is[Len(is)].mnemonic)
    /\ \A k \in 1..(Len(is) - 1) : ~is_terminator(is[k].mnemonic)

\* C30: after stack expansion and context switching, in every block that
\* ends the flow with ret, iret or syscall that instruction is still the
\* block's last one, and every register save of the block stands before it.
C30_ReturnStaysLast ==
    [][InjectStep =>
        \A b \in 1..Len(blocks) : EndsTheFlow(blocks[b]) =>
           LET is == blocks'[b].instructions IN
           /\ is_return(is[Len(is)].mnemonic)
           /\ \A k \in 1..Len(is) : \A j \in (k + 1)..Len(is) :
                 is_return(is[k].mnemonic) => ~IsSave(is[j], allocations')]_vars

\* What does hold: the return keeps its place after the block's original
\* instructions, and the saves of the registers the block uses follow it,
\* one for each.
C30_SavesFollowReturn ==
    [][InjectStep =>
        \A b \in 1..Len(blocks) : EndsTheFlow(blocks[b]) =>
           LET is == blocks'[b].instructions
               n  == Cardinality(UsedBy(blocks[b].instructions))
           IN  /\ Len(is) = Len(blocks[b].instructions) + 2 * n
               /\ is[Len(is) - n] = blocks[b].instructions[Len(blocks[b].instructions)]
               /\ \A j \in (Len(is) - n + 1)..Len(is) : IsSave(is[j], allocations')]_vars

(***************************************************************************)
(* Where the emitted code of a block sends control.  A machine's flags are *)
(* the four the conditional jumps read; a conditional jump is taken as the *)
(* processor's manual defines its mnemonic.                                *)
(***************************************************************************)
Flags == [zf : BOOLEAN, sf : BOOLEAN, of : BOOLEAN, cf : BOOLEAN]
Taken(m, fl) ==
    CASE m \in {"je", "jz"}          -> fl.zf
      [] m \in {"jne", "jnz"}        -> ~fl.zf
      [] m \in {"jl", "jnge"}        -> fl.sf # fl.of
      [] m \in {"jge", "jnl"}        -> fl.sf = fl.of
      [] m \in {"jg", "jnle"}        -> ~fl.zf /\ fl.sf = fl.of
      [] m \in {"jle", "jng"}        -> fl.zf \/ fl.sf # fl.of
      [] m \in {"jb", "jnae", "jc"}  -> fl.cf
      [] m \in {"jae", "jnb", "jnc"} -> ~fl.cf
      [] m \in {"ja", "jnbe"}        -> ~fl.cf /\ ~fl.zf
      [] m \in {"jbe", "jna"}        -> fl.cf \/ fl.zf

\* The label control reaches when the stream is executed from position p
\* under the flags fl: the operand of the first jump taken, or the next
\* label of the stream when no jump is taken before it.
LeavesFlow == "<return>"
EndOfStream == "<end>"
RECURSIVE Transfer(_, _, _)
Transfer(stream, p, fl) ==
    IF p > Len(stream) THEN EndOfStream
    ELSE IF IsLabel(stream[p]) THEN stream[p].label
    ELSE LET i == stream[p] IN
         CASE i.mnemonic \in {"jmp", "b"}         -> i.operand
           [] i.mnemonic \in ConditionalMnemonics ->
                 IF Taken(i.mnemonic, fl) THEN i.operand
                 ELSE Transfer(stream, p + 1, fl)
           [] is_return(i.mnemonic)               -> LeavesFlow
           [] OTHER                               -> Transfer(stream, p + 1, fl)

\* The positions at which block b is emitted in the stream of function f:
\* its label, after the function's own label.
EmissionsOf(f, b) ==
    {p \in 2..Len(emitted[f].instructions) :
        emitted[f].instructions[p] = Label(blocks[b].name)}
\* From every emission of block b, under every flags, control reaches the
\* label the choice names.
TransfersTo(b, choice(_)) ==
    \A f \in 1..Len(emitted) : \A p \in EmissionsOf(f, b) : \A fl \in Flags :
        Transfer(emitted[f].instructions, p + 1, fl) = choice(fl)

\* The source block that ends in the conditional jump of element j.
BlockEndingAt(j) == BlockNamed(NameAt(j + 1)) - 1
JumpChoice(j, fl) ==
    IF Taken(src[j].mnemonic, fl) THEN src[j].operand ELSE NameAt(j + 1)

\* C28: for every source block that ends in a conditional jump 'jcc T' with
\* next physical block N, wherever the linearizer emits the block, the code
\* emitted for it sends control to T exactly when cc holds and to N
\* otherwise; the code emitted for a block with a DirectSuccessor sends
\* control to that successor.
C28_EmittedJumpsRefineSource ==
    cfgPc = "linearized" =>
        /\ \A j \in 1..Len(src) : CondJumpAt(j) =>
              LET Choice(fl) == JumpChoice(j, fl)
              IN  TransfersTo(BlockEndingAt(j), Choice)
        /\ \A b \in 1..Len(blocks) : blocks[b].successor.kind = "direct" =>
              LET Choice(fl) == blocks[blocks[b].successor.block].name
              IN  TransfersTo(b, Choice)

\* A swapped jump whose target is not the next emitted block: the block is
\* emitted with the canonical jump to N and a jmp to T; and a block with a
\* DirectSuccessor that the stream reaches by falling through.
C28_Witness ==
    /\ cfgPc = "linearized"
    /\ \E j \in 1..Len(src) :
          /\ CondJumpAt(j) /\ src[j].mnemonic \in C9_Swap
          /\ src[j].operand # NameAt(j + 1)
          /\ \E f \in 1..Len(emitted) : \E p \in EmissionsOf(f, BlockEndingAt(j)) :
                \E q \in (p + 1)..(Len(emitted[f].instructions) - 1) :
                   /\ emitted[f].instructions[q] =
                         Jump(C9_Canonical(src[j].mnemonic), NameAt(j + 1))
                   /\ emitted[f].instructions[q + 1] = Jump("jmp", src[j].operand)
    /\ \E b \in 1..Len(blocks) : \E f \in 1..Len(emitted) :
          /\ blocks[b].successor.kind = "direct"
          /\ \E p \in EmissionsOf(f, b) :
                /\ p < Len(emitted[f].instructions)
                /\ IsLabel(emitted[f].instructions[p + 1])

(***************************************************************************)
(* The processor that runs the rewritten code: the eight tracked           *)
(* registers, the zero flag, a memory of words addressed by number (the    *)
(* stack and whatever register-based operands point at), and the data      *)
(* section addressed by its offsets under data_label (the scratch slot and *)
(* the register slots).  Words are numbers modulo MaxWord + 1.  The two    *)
(* memories are disjoint: no stack or operand address falls on a slot.     *)
(***************************************************************************)
MaxWord == 31   \* the largest machine word
Words   == 0..MaxWord
Word(n) == n % (MaxWord + 1)

IsDataAddress(op) == op.kind = "mem" /\ data_label \in DOMAIN op.displacement.t
RegValue(m, r) == IF r = NoReg THEN 0 ELSE m.regs[r]
\* displacement + base + index * scale; a displacement that is not under
\* data_label counts by its constant (the symbol 0 of the default
\* displacement is the number zero to the assembler).
Address(m, op) ==
    Word(op.displacement.c + RegValue(m, op.base) + op.scale * RegValue(m, op.index))
Read(m, op) ==
    CASE op.kind = "reg" -> m.regs[op.reg]
      [] op.kind = "imm" -> Word(op.value.c)
      [] op.kind = "mem" ->
            IF IsDataAddress(op) THEN m.data[op.displacement.c]
            ELSE m.mem[Address(m, op)]
Write(m, op, v) ==
    CASE op.kind = "reg" -> [m EXCEPT !.regs[op.reg] = v]
      [] op.kind = "mem" ->
            IF IsDataAddress(op) THEN [m EXCEPT !.data[op.displacement.c] = v]
            ELSE [m EXCEPT !.mem[Address(m, op)] = v]

\* pushl and popl as the processor executes them.  pushl reads its operand
\* before %esp moves; popl computes the address of a memory destination
\* after %esp has moved, and a popped %esp replaces the moved one.
NativePush(m, source) ==
    LET v  == Read(m, source)
        sp == Word(m.regs[ESP] - 4)
    IN  [m EXCEPT !.regs[ESP] = sp, !.mem[sp] = v]
NativePop(m, dst) ==
    LET v == m.mem[m.regs[ESP]]
    IN  Write([m EXCEPT !.regs[ESP] = Word(@ + 4)], dst, v)
Native(m, instr) ==
    IF instr.mnemonic = "pushl" THEN NativePush(m, instr.operands[1])
    ELSE NativePop(m, instr.operands[1])

Running == mach.pc = "run" /\ mach.ip <= Len(mach.code)
Current == mach.code[mach.ip]
IsInstruction(i) == "operands" \in DOMAIN i

ExecMove ==
    /\ Running /\ IsInstruction(Current) /\ Current.mnemonic = "movl"
    /\ mach' = [Write(mach, Current.operands[2], Read(mach, Current.operands[1]))
                   EXCEPT !.ip = @ + 1]
    /\ UNCHANGED <<memVars, exprVars, parseVars, cfgVars, dataVars, pcall, trav>>

\* addl, subl and incl write their result and the zero flag.
ExecArith ==
    /\ Running /\ IsInstruction(Current)
    /\ Current.mnemonic \in {"addl", "subl", "incl"}
    /\ LET dst == Current.operands[Len(Current.operands)]
           v   == CASE Current.mnemonic = "addl" ->
                          Word(Read(mach, dst) + Read(mach, Current.operands[1]))
                    [] Current.mnemonic = "subl" ->
                          Word(Read(mach, dst) - Read(mach, Current.operands[1]))
                    [] Current.mnemonic = "incl" -> Word(Read(mach, dst) + 1)
       IN  mach' = [Write(mach, dst, v) EXCEPT !.ip = @ + 1, !.zf = (v = 0)]
    /\ UNCHANGED <<memVars, exprVars, parseVars, cfgVars, dataVars, pcall, trav>>

\* The end of the code under test.
ExecEnd ==
    /\ mach.pc = "run" /\ mach.ip > Len(mach.code)
    /\ mach' = [mach EXCEPT !.pc = "done"]
    /\ UNCHANGED <<memVars, exprVars, parseVars, cfgVars, dataVars, pcall, trav>>

(***************************************************************************)
(* One expanded pushl or popl, run from a machine state.                   *)
(***************************************************************************)
ExecOperands ==
    {RegisterOperand(r) : r \in Tracked}
    \cup {ImmediateOperand(ExprInt(4))}
    \cup {BaseOperand(r) : r \in {EAX, EBX, ESP}}
    \cup {MemoryOperand(ESP, NoReg, 1, ExprInt(4)),
          MemoryOperand(ESP, NoReg, 1, ExprInt(-4)),
          MemoryOperand(EBX, EAX, 2, ExprInt(8)),
          MemoryOperand(EAX, EBX, 1, ExprInt(0)),
          MemoryOperand("%ecx", "%edx", 1, ExprInt(0)),
          MemoryOperand(NoReg, "%esi", 4, ExprInt(0)),
          DisplacementOperand(ExprInt(8))}
ExecInstructions ==
    {Instr("pushl", <<op>>) : op \in ExecOperands}
    \cup {Instr("popl", <<op>>) : op \in {o \in ExecOperands : o.kind # "imm"}}

\* Machine states: %eax, %ebx and %esp vary (equal and different, at the
\* ends of the memory and inside it), the other registers differ from each
\* other, every memory word differs from the others.
ExecRegisters ==
    {[r \in Tracked |->
        CASE r = EAX -> a [] r = EBX -> b [] r = ESP -> sp
          [] r = "%ecx" -> 12 [] r = "%edx" -> 16 [] r = "%esi" -> 2
          [] r = "%edi" -> 20 [] r = "%ebp" -> 24] :
        a \in {0, 4, 9}, b \in {4, 13}, sp \in {0, 8, 28}}
ExecMemory == [a \in Words |-> Word(7 * a + 3)]
ExecData(offsets) == [o \in offsets |-> Word(5 * o + 17)]

InitStack ==
    /\ \E instr \in ExecInstructions : \E scratch_offset \in ScratchOffsets :
       \E regs \in ExecRegisters : \E zf \in BOOLEAN :
          /\ pcall = [fn |-> "expand_instruction", instr |-> instr,
                      scratch_offset |-> scratch_offset]
          /\ mach = [pc |-> "run", ip |-> 1,
                     code |-> expand_instruction(instr, scratch_offset, data_label),
                     regs |-> regs, mem |-> ExecMemory,
                     data |-> ExecData({scratch_offset}), zf |-> zf,
                     entry |-> [regs |-> regs, mem |-> ExecMemory, zf |-> zf]]
    /\ trav = [pc |-> "idle"]
    /\ MemIdle /\ ExprIdle /\ ParseIdle /\ CfgIdle /\ DataIdle

NextStack == ExecMove \/ ExecArith \/ ExecEnd
SpecStack == InitStack /\ [][NextStack]_vars

Expanded == mach.pc = "done" /\ pcall.fn = "expand_instruction"
SameAsNative ==
    LET n == Native(mach.entry, pcall.instr)
    IN  mach.regs = n.regs /\ mach.mem = n.mem

\* C26: run from any machine state, an expanded pushl or popl leaves the
\* registers and the memory as the native instruction leaves them: %esp 4
\* lower and the operand's former value on top of the stack (the former
\* %esp for pushl %esp); the destination holding the former top of the
\* stack and %esp 4 higher (the popped word for popl %esp); every other
\* tracked register, the scratch register included, as it was.
C26_ExpansionSameAsNative == Expanded => SameAsNative

\* What does hold: the same, unless the instruction is a popl to a memory
\* operand that uses both %eax and %ebx.
UsesBothScratch(op) == op.kind = "mem" /\ {EAX, EBX} \subseteq {op.base, op.index}
C26_SameAsNativeUnlessBothScratch ==
    Expanded =>
        \/ pcall.instr.mnemonic = "popl" /\ UsesBothScratch(pcall.instr.operands[1])
        \/ SameAsNative

\* The native instructions leave the flags alone; the expansions do not.
C26_ZeroFlagKept == Expanded => mach.zf = mach.entry.zf

(***************************************************************************)
(* A whole function run after the rewriting: the stream linearize_function *)
(* emits for a function returned by inject_context_switching, from the     *)
(* function's label to its return.                                         *)
(***************************************************************************)
\* Control functions with their instructions: a loop on the entry block;
\* a push and a pop of memory operands followed by a block of its own; a
\* second function that jumps into the first (its blocks are shared); a
\* physically last block that ends in a conditional jump, which link_blocks
\* leaves in the instruction list; a function that ends without a return.
JumpInstr(m, n) == Instr(m, <<DisplacementOperand(ExprSym(n))>>)
RunPrograms ==
    {<<TypedBlock("f", <<Instr("incl", <<RegisterOperand("%ecx")>>)>>, 1,
                  ConditionalSuccessor(1, 2, "je")),
       TypedBlock("L1", <<Instr("movl", <<RegisterOperand("%ecx"),
                                          RegisterOperand("%edx")>>),
                          Instr("ret", <<>>)>>, 4, NoSuccessor)>>,
     <<TypedBlock("f", <<Instr("pushl", <<BaseOperand(EAX)>>),
                         Instr("popl", <<MemoryOperand(NoReg, "%esi", 4, ExprInt(0))>>)>>,
                  1, DirectSuccessor(2)),
       TypedBlock("L1", <<Instr("pushl", <<RegisterOperand("%ebp")>>),
                          Instr("popl", <<RegisterOperand("%edi")>>)>>, 4,
                  ConditionalSuccessor(3, 1, "je")),
       TypedBlock("L2", <<Instr("ret", <<>>)>>, 8, NoSuccessor)>>,
     <<TypedBlock("f", <<Instr("addl", <<ImmediateOperand(ExprInt(4)),
                                         RegisterOperand(EBX)>>)>>, 1,
                  DirectSuccessor(3)),
       TypedBlock("g", <<Instr("movl", <<RegisterOperand(ESP), RegisterOperand(EAX)>>)>>,
                  4, DirectSuccessor(1)),
       TypedBlock("L1", <<Instr("ret", <<>>)>>, 7, NoSuccessor)>>,
     <<TypedBlock("f", <<Instr("movl", <<ImmediateOperand(ExprInt(-1)),
                                         RegisterOperand(EAX)>>)>>, 1,
                  DirectSuccessor(2)),
       TypedBlock("L1", <<Instr("incl", <<RegisterOperand(EAX)>>),
                          JumpInstr("je", "L1")>>, 4, NoSuccessor)>>,
     <<TypedBlock("f", <<Instr("incl", <<RegisterOperand("%edx")>>)>>, 1,
                  NoSuccessor)>>}

\* The registers an instruction reads or writes on this processor: those of
\* its operands.
TouchedBy(instr) ==
    {r \in Tracked : \E k \in 1..Len(instr.operands) :
        LET op == instr.operands[k] IN
        \/ op.kind = "reg" /\ op.reg = r
        \/ op.kind = "mem" /\ r \in {op.base, op.index}}

\* The program as parse_cfg returns it, with no data section; the passes
\* then run in the order of preprocess_cfg, and the function is called.
InitRun ==
    /\ \E bs \in RunPrograms :
          /\ blocks = bs /\ functions = extract_functions(bs)
    /\ src = <<>> /\ emitted = <<>> /\ cfgPc = "parsed"
    /\ alignment = 4 /\ current_offset = 0 /\ allocations = <<>>
    /\ memResult = [status |-> "none"]
    /\ dsrc = <<>> /\ dcalls = <<>> /\ dmap = <<>> /\ dPc = "returned"
    /\ pcall = [fn |-> "none"] /\ trav = [pc |-> "idle"] /\ MachIdle
    /\ ExprIdle /\ ParseIdle

\* A call of one of the emitted functions, from a machine state.
CallFunction ==
    /\ cfgPc = "linearized" /\ MachIdle
    /\ \E f \in 1..Len(emitted) : \E regs \in ExecRegisters : \E zf \in BOOLEAN :
          mach' = [pc |-> "run", ip |-> 1, code |-> emitted[f].instructions,
                   regs |-> regs, mem |-> ExecMemory,
                   data |-> ExecData({allocations[k].offset : k \in 1..Len(allocations)}
                                     \cup ScratchOffsets),
                   zf |-> zf, via |-> "call", f |-> f]
    /\ UNCHANGED <<memVars, exprVars, parseVars, cfgVars, dataVars, pcall, trav>>

\* Control passes a label.
ExecLabel ==
    /\ Running /\ IsLabel(Current)
    /\ mach' = [mach EXCEPT !.ip = @ + 1, !.via = "label"]
    /\ UNCHANGED <<memVars, exprVars, parseVars, cfgVars, dataVars, pcall, trav>>

\* A jump: one the linearizer emitted for the block's successor, or one
\* that was left in the block's instruction list.  A label that is not in
\* the function's stream takes control out of it.
JumpTarget(i) == IF IsInstruction(i) THEN (CHOOSE s \in SymbolsOf(i.operands[1].displacement) : TRUE)
                 ELSE i.operand
PositionOf(n) ==
    IF \E p \in 1..Len(mach.code) : mach.code[p] = Label(n)
    THEN CHOOSE p \in 1..Len(mach.code) :
            /\ mach.code[p] = Label(n)
            /\ \A q \in 1..(p - 1) : mach.code[q] # Label(n)
    ELSE 0
ExecJump ==
    /\ Running /\ ~IsLabel(Current)
    /\ Current.mnemonic \in {"jmp", "je"}
    /\ LET taken == \/ Current.mnemonic = "jmp"
                    \/ Taken(Current.mnemonic,
                             [zf |-> mach.zf, sf |-> FALSE, of |-> FALSE, cf |-> FALSE])
           p     == PositionOf(JumpTarget(Current))
       IN  mach' = IF ~taken THEN [mach EXCEPT !.ip = @ + 1, !.via = "next"]
                   ELSE IF p = 0 THEN [mach EXCEPT !.pc = "left"]
                   ELSE [mach EXCEPT !.ip = p,
                            !.via = IF IsInstruction(Current) THEN "block jump"
                                    ELSE "successor jump"]
    /\ UNCHANGED <<memVars, exprVars, parseVars, cfgVars, dataVars, pcall, trav>>

ExecReturn ==
    /\ Running /\ IsInstruction(Current) /\ is_return(Current.mnemonic)
    /\ mach' = [mach EXCEPT !.pc = "returned"]
    /\ UNCHANGED <<memVars, exprVars, parseVars, cfgVars, dataVars, pcall, trav>>

NextRun ==
    \/ ResolveSymbols \/ ExpandStackOps \/ InjectContextSwitching
    \/ LinearizeFunctions \/ CallFunction
    \/ ExecMove \/ ExecArith \/ ExecLabel \/ ExecJump \/ ExecReturn \/ ExecEnd
SpecRun == InitRun /\ [][NextRun]_vars

\* Control stands at the label of a block, the prologue of the function
\* behind it.
AtBlockBoundary ==
    /\ Running /\ IsLabel(Current)
    /\ mach.ip > 1 + Len(functions[mach.f].prologue)
\* The virtual context and the hardware state agree.
SlotsAgree ==
    \A r \in Tracked : mach.data[RegisterSlot(allocations, r)] = mach.regs[r]
\* The instructions of every block touch only the registers that
\* get_used_registers reports for the block.
OnlyUsedRegisters ==
    \A b \in 1..Len(blocks) : \A k \in 1..Len(blocks[b].instructions) :
        TouchedBy(blocks[b].instructions[k])
           \subseteq get_used_registers(blocks[b].instructions)

\* C29: in a function whose instructions read and write only the registers
\* get_used_registers reports for their block, once the prologue has run,
\* every time control passes from a block to the next one each of the
\* eight tracked registers' slot holds the value of the register.
C29_SlotsAgreeAtBoundaries ==
    (mach.pc = "run" /\ OnlyUsedRegisters /\ AtBlockBoundary) => SlotsAgree

\* What does hold: the same at every boundary reached by falling through or
\* by a jump the linearizer emitted for the block's successor.
C29_SlotsAgreeAtSuccessorBoundaries ==
    (mach.pc = "run" /\ OnlyUsedRegisters /\ AtBlockBoundary
        /\ mach.via # "block jump") => SlotsAgree

====
